---- MODULE Spec2Model ----
(***************************************************************************)
(* Model of the service-agreement PDF builder (src/fillData.js).           *)
(*                                                                         *)
(* JavaScript values are tagged records [t, n, s]:                         *)
(*   t = "null"  null or undefined                                         *)
(*   t = "bool"  a boolean, n = 1 for true and 0 for false                 *)
(*   t = "num"   a finite number, n = the number in hundredths             *)
(*   t = "str"   a string, s = its characters                              *)
(* and [t |-> "arr", items] for an array, [t |-> "obj", fields] for an     *)
(* object, where they can stand in the place of another type.              *)
(* Numbers are exact decimals with FractionDigits places, so 450 is 45000. *)
(***************************************************************************)
EXTENDS Integers, Sequences, FiniteSets, TLC

VARIABLES pc, data, cgt, prevGrand, TODAY_AU, gic, fd,
          call, event, env, opts, hpc, pdfBuffer, s3, trace, error, response,
          sydneyDate, now, files, renders

\* the process clock and the concurrent calls of renderPdfFromHtmlFile with
\* the temporary files they share (src/renderPdf.js)
rvars == <<sydneyDate, now, files, renders>>

\* the state of a handler invocation (src/index.js, src/renderPdf.js)
hvars == <<event, env, opts, hpc, pdfBuffer, s3, trace, error, response, rvars>>

vars == <<pc, data, cgt, prevGrand, TODAY_AU, gic, fd, call, hvars>>

\* ------------------------------------------------------------------------
\* JavaScript values
\* ------------------------------------------------------------------------
FractionDigits == 2

Scale == 10 ^ FractionDigits

Null == [t |-> "null", n |-> 0, s |-> <<>>]

Bool(b) == [t |-> "bool", n |-> IF b THEN 1 ELSE 0, s |-> <<>>]

Num(n) == [t |-> "num", n |-> n, s |-> <<>>]

Str(s) == [t |-> "str", n |-> 0, s |-> s]

\* an array with the elements items
Arr(items) == [t |-> "arr", items |-> items]

\* an object; a property it lacks is a field that is Null
Obj(fields) == [t |-> "obj", fields |-> fields]

\* v?.[k] for a property k the model gives every object
Prop(v, k) == IF v.t = "obj" THEN v.fields[k] ELSE Null

\* a whole number k as a JavaScript number
Whole(k) == Num(k * Scale)

\* v ?? d
Coalesce(v, d) == IF v.t = "null" THEN d ELSE v

\* the truthiness of v
Truthy(v) ==
  CASE v.t = "null" -> FALSE
    [] v.t = "bool" -> v.n = 1
    [] v.t = "num" -> v.n # 0
    [] v.t = "str" -> v.s # <<>>
    [] OTHER -> TRUE

\* Math.max that forgets its first argument
MaxOfSecond(a, b) == b

\* Math.max(a, b)
Max(a, b) == IF a >= b THEN a ELSE b

\* a * b for two numbers in hundredths
Mul(a, b) == (a * b) \div Scale

\* ------------------------------------------------------------------------
\* Characters and strings
\* ------------------------------------------------------------------------
DigitChars == <<"0", "1", "2", "3", "4", "5", "6", "7", "8", "9">>

UpperChars == <<"A", "B", "C", "D", "E", "F", "G", "H", "I", "J", "K", "L", "M",
                "N", "O", "P", "Q", "R", "S", "T", "U", "V", "W", "X", "Y", "Z">>

LowerChars == <<"a", "b", "c", "d", "e", "f", "g", "h", "i", "j", "k", "l", "m",
                "n", "o", "p", "q", "r", "s", "t", "u", "v", "w", "x", "y", "z">>

WhiteSpace == {" ", "\t", "\n"}

IsDigit(c) == \E i \in 1..10 : DigitChars[i] = c

DigitVal(c) == (CHOOSE i \in 1..10 : DigitChars[i] = c) - 1

LowerChar(c) ==
  IF \E i \in 1..26 : UpperChars[i] = c
    THEN LowerChars[CHOOSE i \in 1..26 : UpperChars[i] = c]
    ELSE c

\* String.prototype.toLowerCase
ToLowerCase(s) == [i \in 1..Len(s) |-> LowerChar(s[i])]

RECURSIVE TrimStart(_)
TrimStart(s) ==
  IF s # <<>> /\ Head(s) \in WhiteSpace THEN TrimStart(Tail(s)) ELSE s

RECURSIVE TrimEnd(_)
TrimEnd(s) ==
  IF s # <<>> /\ s[Len(s)] \in WhiteSpace
    THEN TrimEnd(SubSeq(s, 1, Len(s) - 1))
    ELSE s

\* String.prototype.trim
Trim(s) == TrimEnd(TrimStart(s))

Includes(s, c) == \E i \in 1..Len(s) : s[i] = c

RECURSIVE NatDigits(_)
NatDigits(k) ==
  IF k < 10 THEN <<DigitChars[k + 1]>>
  ELSE NatDigits(k \div 10) \o <<DigitChars[(k % 10) + 1]>>

\* the fraction digits of String(number): trailing zeros are not printed
FracDigits(h) ==
  IF h = 0 THEN <<>>
  ELSE IF h % 10 = 0 THEN <<".", DigitChars[(h \div 10) + 1]>>
  ELSE <<".", DigitChars[(h \div 10) + 1], DigitChars[(h % 10) + 1]>>

\* String(n) for a finite number n
Sign(n) == IF n < 0 THEN <<"-">> ELSE <<>>

Abs(n) == IF n < 0 THEN -n ELSE n

UnsignedToString(a) == NatDigits(a \div Scale) \o FracDigits(a % Scale)

NumToString(n) == Sign(n) \o UnsignedToString(Abs(n))

\* String(v)
String(v) ==
  CASE v.t = "str" -> v.s
    [] v.t = "num" -> NumToString(v.n)
    [] v.t = "bool" -> IF v.n = 1 THEN <<"t", "r", "u", "e">> ELSE <<"f", "a", "l", "s", "e">>
    [] OTHER -> <<"n", "u", "l", "l">>

\* ------------------------------------------------------------------------
\* getNumber
\* ------------------------------------------------------------------------
\* the number of digits of s from position i on
RECURSIVE DigitRun(_, _)
DigitRun(s, i) ==
  IF i <= Len(s) /\ IsDigit(s[i]) THEN 1 + DigitRun(s, i + 1) ELSE 0

\* the value of the k digits of s that start at position i
RECURSIVE DigitsValue(_, _, _)
DigitsValue(s, i, k) ==
  IF k = 0 THEN 0
  ELSE 10 * DigitsValue(s, i, k - 1) + DigitVal(s[i + k - 1])

NaN == [nan |-> TRUE, n |-> 0]

Finite(n) == [nan |-> FALSE, n |-> n]

\* the first two fraction digits of t, which has ni digits from position
\* start, then a point when nf > 0, then nf digits
FractionValue(t, start, ni, nf) ==
  (IF nf >= 1 THEN 10 * DigitVal(t[start + ni + 1]) ELSE 0)
    + (IF nf >= 2 THEN DigitVal(t[start + ni + 2]) ELSE 0)

ParseFraction(t, start, ni, nf) ==
  IF ni = 0 /\ nf = 0 THEN NaN
  ELSE Finite((IF t[1] = "-" THEN -1 ELSE 1)
                * (DigitsValue(t, start, ni) * Scale + FractionValue(t, start, ni, nf)))

ParseInteger(t, start, ni) ==
  ParseFraction(t, start, ni,
                IF start + ni <= Len(t) /\ t[start + ni] = "."
                  THEN DigitRun(t, start + ni + 1) ELSE 0)

ParseUnsigned(t, start) == ParseInteger(t, start, DigitRun(t, start))

ParseSigned(t) ==
  IF t = <<>> THEN NaN
  ELSE ParseUnsigned(t, IF t[1] \in {"-", "+"} THEN 2 ELSE 1)

\* parseFloat(s): the longest prefix of s that is a decimal literal, in
\* hundredths (digits after the second fraction digit are below the
\* resolution of the model); NaN when no prefix is a number
parseFloat(s) == ParseSigned(TrimStart(s))

\* cleaned = String(val).replace(/[^0-9.,-]/g, "")
Cleaned(s) == SelectSeq(s, LAMBDA c : IsDigit(c) \/ c \in {".", ",", "-"})

\* s.replace(/,/g, "")
DropCommas(s) == SelectSeq(s, LAMBDA c : c # ",")

\* s.replace(",", "."): the first comma only
FirstIndex(s, c) == CHOOSE j \in 1..Len(s) : s[j] = c /\ \A k \in 1..(j - 1) : s[k] # c

ReplaceAt(s, i, c) == [k \in 1..Len(s) |-> IF k = i THEN c ELSE s[k]]

ReplaceFirstComma(s) ==
  IF Includes(s, ",") THEN ReplaceAt(s, FirstIndex(s, ","), ".") ELSE s

\* the normalisation that always drops the commas
NormalizedDropsCommas(cleaned) == DropCommas(cleaned)

\* normalized: commas are thousands separators next to a point, otherwise
\* the first comma is the decimal point
Normalized(cleaned) ==
  IF Includes(cleaned, ".") /\ Includes(cleaned, ",")
    THEN DropCommas(cleaned)
    ELSE ReplaceFirstComma(cleaned)

NumberOrZero(num) == IF num.nan THEN 0 ELSE num.n

\* getNumber(val), in hundredths
getNumber(val) ==
  IF val.t = "num" THEN val.n
  ELSE IF val.t = "null" THEN 0
  ELSE NumberOrZero(parseFloat(Normalized(Cleaned(String(val)))))

\* ------------------------------------------------------------------------
\* Discount and frequency
\* ------------------------------------------------------------------------
\* the rule with the 5% tier starting at three services
getDiscountFromThree(serviceCount) ==
  LET c == serviceCount
  IN IF c < 3 THEN 0
     ELSE IF c >= 3 /\ c < 6 THEN 5
     ELSE 10

getDiscountDefault(serviceCount) ==
  LET c == serviceCount
  IN IF c < 3 THEN 0
     ELSE IF c >= 4 /\ c < 6 THEN 5
     ELSE IF c >= 6 THEN 10
     ELSE 0

sNone == <<"n", "o", "n", "e">>

sYearly == <<"y", "e", "a", "r", "l", "y">>

sSixMonthly == <<"s", "i", "x", "-", "m", "o", "n", "t", "h", "l", "y">>

s6Monthly == <<"6", "m", "o", "n", "t", "h", "l", "y">>

sSixSpaceMonthly == <<"s", "i", "x", " ", "m", "o", "n", "t", "h", "l", "y">>

sQuarterly == <<"q", "u", "a", "r", "t", "e", "r", "l", "y">>

\* the multiplier of the normalised label f
MultiplierOfLabel(f) ==
  IF f = <<>> THEN 0
  ELSE IF f = sNone THEN 0
  ELSE IF f = sYearly THEN 1
  ELSE IF f = sSixMonthly \/ f = s6Monthly \/ f = sSixSpaceMonthly THEN 2
  ELSE 4

\* the multiplier without the lower-casing of the label
frequencyToMultiplierCased(frequency) ==
  MultiplierOfLabel(Trim(String(Coalesce(frequency, Str(<<>>)))))

frequencyToMultiplier(frequency) ==
  MultiplierOfLabel(ToLowerCase(Trim(String(Coalesce(frequency, Str(<<>>))))))

\* ------------------------------------------------------------------------
\* Service collection
\* ------------------------------------------------------------------------
Map(xs, F(_)) == [i \in 1..Len(xs) |-> F(xs[i])]

\* the concatenation of the sequences of xss
RECURSIVE Flat(_)
Flat(xss) ==
  IF Len(xss) = 0 THEN <<>>
  ELSE IF Len(xss) = 1 THEN xss[1]
  ELSE LET h == Len(xss) \div 2
       IN Flat(SubSeq(xss, 1, h)) \o Flat(SubSeq(xss, h + 1, Len(xss)))

\* Array.prototype.flatMap
FlatMap(xs, F(_)) == Flat(Map(xs, F))

\* the item getServices builds for service s of building b of site `site`
\* ({site_name, site_id, building_id, building_name, ...s}): the fields of s
\* are spread last
ServiceItem(site, b, s) ==
  s @@ [site_name |-> Coalesce(site.site_name, Str(<<>>)),
        site_id |-> site.simpro_site_id,
        building_id |-> b.id,
        building_name |-> IF Truthy(b.name) THEN b.name ELSE Null]

getServices(sites, type) ==
  LET OfBuilding(site, b) ==
        Map(SelectSeq(b.services, LAMBDA s : s.type = type),
            LAMBDA s : ServiceItem(site, b, s))
      OfSite(site) == FlatMap(site.buildings, LAMBDA b : OfBuilding(site, b))
  IN [type |-> type, items |-> IF type = "" THEN <<>> ELSE FlatMap(sites, OfSite)]

\* (v ?? []) for a v that is null, undefined or an array
Elements(v) == IF v.t = "arr" THEN v.items ELSE <<>>

\* (v ?? []).flatMap and (v ?? []).filter are not functions: v is neither
\* null, undefined nor an array
LacksArrayMethods(v) == v.t \notin {"null", "arr"}

\* the callback of the inner flatMap raises a TypeError for building b
BuildingThrows(b) == LacksArrayMethods(Prop(b, "services"))

BuildingsThrow(buildings) ==
  \/ LacksArrayMethods(buildings)
  \/ \E j \in 1..Len(Elements(buildings)) : BuildingThrows(Elements(buildings)[j])

\* the callback of the outer flatMap raises a TypeError for the site
SiteThrows(site) == BuildingsThrow(Prop(site, "buildings"))

\* getServices raises a TypeError
getServicesThrows(sites, type) ==
  /\ sites.t = "arr"
  /\ type # ""
  /\ \E i \in 1..Len(sites.items) : SiteThrows(sites.items[i])

\* the services of b?.services that are objects, as records
ServicesOf(services) ==
  Map(SelectSeq(Elements(services), LAMBDA s : s.t = "obj"), LAMBDA s : s.fields)

BuildingOf(b) ==
  [id |-> Prop(b, "id"), name |-> Prop(b, "name"),
   services |-> ServicesOf(Prop(b, "services"))]

SiteOf(site) ==
  [site_name |-> Prop(site, "site_name"), simpro_site_id |-> Prop(site, "simpro_site_id"),
   buildings |-> Map(Elements(Prop(site, "buildings")), BuildingOf)]

\* the sites, buildings and services that getServices walks when the sites
\* are an array and it does not raise
SitesOf(sites) == Map(Elements(sites), SiteOf)

\* ------------------------------------------------------------------------
\* Annual costs
\* ------------------------------------------------------------------------
RECURSIVE SumSeq(_)
SumSeq(ns) ==
  IF ns = <<>> THEN 0 ELSE SumSeq(SubSeq(ns, 1, Len(ns) - 1)) + ns[Len(ns)]

\* services.reduce((acc, s) => acc + Term(s), 0)
Reduce(services, Term(_)) == SumSeq(Map(services, Term))

\* the sum of price * mult over the services
SumCost(services, mult) ==
  IF mult = 0 \/ services = <<>> THEN 0
  ELSE Reduce(services, LAMBDA s : getNumber(s.price) * mult)

\* the sum that bills a service without a chutes value as one chute
SumChuteCostOfOne(services, mult) ==
  IF mult = 0 \/ services = <<>> THEN 0
  ELSE Reduce(services,
              LAMBDA s : Mul(getNumber(s.price) * mult,
                             IF s.chutes = Null THEN Scale ELSE getNumber(s.chutes)))

\* the sum of price * mult * chutes over the services
SumChuteCost(services, mult) ==
  IF mult = 0 \/ services = <<>> THEN 0
  ELSE Reduce(services, LAMBDA s : Mul(getNumber(s.price) * mult, getNumber(s.chutes)))

\* the sum of price * mult * quantity over the services
SumEquipmentCost(services, mult) ==
  IF mult = 0 \/ services = <<>> THEN 0
  ELSE Reduce(services, LAMBDA s : Mul(getNumber(s.price) * mult, getNumber(s.quantity)))

getServiceAnualCost(services, frequency) ==
  SumCost(services, frequencyToMultiplier(frequency))

\* the chute cost that bills per service instead of per chute
getServiceAnualChuteCostFlat(services, frequency) ==
  SumCost(services, frequencyToMultiplier(frequency))

getServiceAnualChuteCost(services, frequency) ==
  SumChuteCost(services, frequencyToMultiplier(frequency))

getServiceAnualEquipmentCost(services, frequency) ==
  SumEquipmentCost(services, frequencyToMultiplier(frequency))

\* the lookup that takes an absent id for one unit
UnitsOfDefaultOne(odourControlUnits, id) ==
  IF id \in DOMAIN odourControlUnits THEN odourControlUnits[id] ELSE Num(Scale)

\* odourControlUnits?.[id]
UnitsOf(odourControlUnits, id) ==
  IF id \in DOMAIN odourControlUnits THEN odourControlUnits[id] ELSE Null

\* the odour-control term of computeGrandTotal's reduce
OdourTerm(r, odourControlUnits, odourMult) ==
  Mul(getNumber(Coalesce(UnitsOf(odourControlUnits, r.id), Num(0))), getNumber(r.price))
    * odourMult

\* the discount applied whatever `incentives` is
DiscountAmtAlways(subtotal, discountPct, incentives) ==
  IF discountPct # 0 THEN (subtotal * discountPct) \div 100 ELSE 0

\* discountPct && incentives ? (subtotal * discountPct) / 100 : 0
DiscountAmt(subtotal, discountPct, incentives) ==
  IF discountPct # 0 /\ Truthy(incentives) THEN (subtotal * discountPct) \div 100 ELSE 0

\* the filter that compares the lower-cased label with "none"
IsCountedAnyCase(f) ==
  f.t # "null" /\ ToLowerCase(Trim(String(f))) \notin {<<>>, sNone}

\* the frequency filter of computeGrandTotal
IsCounted(f) == f.t # "null" /\ Trim(String(f)) \notin {<<>>, sNone}

\* the odour-control cost for the multiplier odourMult
OdourAnnual(items, odourControlUnits, odourMult) ==
  IF odourMult # 0
    THEN Reduce(items, LAMBDA r : OdourTerm(r, odourControlUnits, odourMult))
    ELSE 0

\* the serviceCount of computeGrandTotal
ServiceCount(frequencies) ==
  Len(SelectSeq(<<frequencies.chuteCleaningFrequency,
                  frequencies.equipmentMaintenanceFrequency,
                  frequencies.selfClosingHopperDoorInspectionFrequency,
                  frequencies.wasteRoomCleaningFrequency,
                  frequencies.binCleaningFrequency,
                  frequencies.odourControlFrequency>>, IsCounted))

\* the return of computeGrandTotal, and its locals
GrandTotal(annual, odourMult, subtotal, serviceCount, discountPct, discountAmt) ==
  [chuteAnnual |-> annual[1], equipAnnual |-> annual[2],
   hopperAnnual |-> annual[3], wasteAnnual |-> annual[4],
   binAnnual |-> annual[5], odourMult |-> odourMult, odourAnnual |-> annual[6],
   subtotal |-> subtotal, serviceCount |-> serviceCount,
   discountPct |-> discountPct, discountAmt |-> discountAmt,
   result |-> Max(0, subtotal - discountAmt)]

Discounted(annual, odourMult, subtotal, serviceCount, discountPct, incentives) ==
  GrandTotal(annual, odourMult, subtotal, serviceCount, discountPct,
             DiscountAmt(subtotal, discountPct, incentives))

Subtotalled(annual, odourMult, subtotal, serviceCount, incentives) ==
  Discounted(annual, odourMult, subtotal, serviceCount,
             getDiscountDefault(serviceCount), incentives)

\* the six annual costs with the odour-control multiplier odourMult
Annualised(sites, frequencies, odourControlUnits, odourMult) ==
  <<getServiceAnualChuteCost(getServices(sites, "chute_cleaning").items,
                             frequencies.chuteCleaningFrequency),
    getServiceAnualEquipmentCost(getServices(sites, "equipment_maintenance").items,
                                 frequencies.equipmentMaintenanceFrequency),
    getServiceAnualChuteCost(getServices(sites, "hopper_door_inspection").items,
                             frequencies.selfClosingHopperDoorInspectionFrequency),
    getServiceAnualCost(getServices(sites, "waste_room_pressure_clean").items,
                        frequencies.wasteRoomCleaningFrequency),
    getServiceAnualCost(getServices(sites, "bin_cleaning").items,
                        frequencies.binCleaningFrequency),
    OdourAnnual(getServices(sites, "odour_control").items, odourControlUnits, odourMult)>>

WithAnnuals(annual, odourMult, frequencies, incentives) ==
  Subtotalled(annual, odourMult,
              annual[1] + annual[2] + annual[3] + annual[4] + annual[5] + annual[6],
              ServiceCount(frequencies), incentives)

WithOdourMult(sites, frequencies, odourControlUnits, incentives, odourMult) ==
  WithAnnuals(Annualised(sites, frequencies, odourControlUnits, odourMult),
              odourMult, frequencies, incentives)

\* computeGrandTotal: the values of its locals when it returns; result is the
\* returned number
computeGrandTotal(sites, frequencies, odourControlUnits, incentives) ==
  WithOdourMult(sites, frequencies, odourControlUnits, incentives,
                frequencyToMultiplier(frequencies.odourControlFrequency))

\* the six annual costs of the later version (src/unnamed/part_001): bin
\* cleaning goes through getServiceAnualEquipmentCost, price * mult * quantity
AnnualisedLater(sites, frequencies, odourControlUnits, odourMult) ==
  <<getServiceAnualChuteCost(getServices(sites, "chute_cleaning").items,
                             frequencies.chuteCleaningFrequency),
    getServiceAnualEquipmentCost(getServices(sites, "equipment_maintenance").items,
                                 frequencies.equipmentMaintenanceFrequency),
    getServiceAnualChuteCost(getServices(sites, "hopper_door_inspection").items,
                             frequencies.selfClosingHopperDoorInspectionFrequency),
    getServiceAnualCost(getServices(sites, "waste_room_pressure_clean").items,
                        frequencies.wasteRoomCleaningFrequency),
    getServiceAnualEquipmentCost(getServices(sites, "bin_cleaning").items,
                                 frequencies.binCleaningFrequency),
    OdourAnnual(getServices(sites, "odour_control").items, odourControlUnits, odourMult)>>

WithOdourMultLater(sites, frequencies, odourControlUnits, incentives, odourMult) ==
  WithAnnuals(AnnualisedLater(sites, frequencies, odourControlUnits, odourMult),
              odourMult, frequencies, incentives)

\* computeGrandTotal of src/unnamed/part_001
computeGrandTotalLater(sites, frequencies, odourControlUnits, incentives) ==
  WithOdourMultLater(sites, frequencies, odourControlUnits, incentives,
                     frequencyToMultiplier(frequencies.odourControlFrequency))

\* computeGrandTotal raises: its first getServices call does
computeGrandTotalThrows(sites) == getServicesThrows(sites, "chute_cleaning")

\* ------------------------------------------------------------------------
\* Templating: HTML is a sequence of atoms, an atom being a placeholder, a
\* character or a piece of markup or text that is never split
\* ------------------------------------------------------------------------
\* html.split(token).join(v): v in place of every atom that is token
RECURSIVE SplitJoin(_, _, _)
SplitJoin(html, token, v) ==
  IF ~Includes(html, token) THEN html
  ELSE LET i == CHOOSE k \in 1..Len(html) :
                  html[k] = token /\ \A m \in 1..(k - 1) : html[m] # token
       IN SubSeq(html, 1, i - 1) \o v \o SplitJoin(SubSeq(html, i + 1, Len(html)), token, v)

\* safeReplaceAll(html, token, value) with v = value == null ? "" : String(value)
safeReplaceAll(html, token, value) ==
  SplitJoin(html, token, IF value.t = "null" THEN <<>> ELSE String(value))

RECURSIVE Join(_, _)
Join(parts, sep) ==
  IF parts = <<>> THEN <<>>
  ELSE IF Len(parts) = 1 THEN parts[1]
  ELSE parts[1] \o sep \o Join(Tail(parts), sep)

\* safeJoin(parts, sep): the trimmed, non-empty parts joined by sep
safeJoin(parts, sep) ==
  LET trimmed == [i \in 1..Len(parts) |-> Trim(String(Coalesce(parts[i], Str(<<>>))))]
  IN Join(SelectSeq(trimmed, LAMBDA q : q # <<>>), sep)

Pad2(k) == <<DigitChars[(k \div 10) + 1], DigitChars[(k % 10) + 1]>>

DaysInMonth(y, m) ==
  IF m = 2 THEN (IF (y % 4 = 0 /\ y % 100 # 0) \/ y % 400 = 0 THEN 29 ELSE 28)
  ELSE IF m \in {4, 6, 9, 11} THEN 30 ELSE 31

\* toDDMMYYYY(iso) for the calendar-date form YYYY-MM-DD
toDDMMYYYY(iso) ==
  IF ~Truthy(iso) \/ iso.t # "str" THEN <<>>
  ELSE LET c == iso.s
           shaped == /\ Len(c) = 10
                     /\ c[5] = "-" /\ c[8] = "-"
                     /\ \A i \in {1, 2, 3, 4, 6, 7, 9, 10} : IsDigit(c[i])
           y == DigitsValue(c, 1, 4)
           m == DigitsValue(c, 6, 2)
           dd == DigitsValue(c, 9, 2)
       IN IF shaped /\ m \in 1..12 /\ dd >= 1 /\ dd <= DaysInMonth(y, m)
            THEN SubSeq(c, 9, 10) \o <<"/">> \o SubSeq(c, 6, 7) \o <<"/">> \o SubSeq(c, 1, 4)
            ELSE <<>>

\* the calendar day after the day d of the month m of the year y
NextDay(y, m, d) ==
  IF d < DaysInMonth(y, m) THEN <<y, m, d + 1>>
  ELSE IF m < 12 THEN <<y, m + 1, 1>> ELSE <<y + 1, 1, 1>>

\* the calendar day before the day d of the month m of the year y
PrevDay(y, m, d) ==
  IF d > 1 THEN <<y, m, d - 1>>
  ELSE IF m > 1 THEN <<y, m - 1, DaysInMonth(y, m - 1)>> ELSE <<y - 1, 12, 31>>

\* the local calendar day of a Date whose local hour, counted from the
\* midnight of the day (y, m, d), is hours
LocalDay(y, m, d, hours) ==
  IF hours >= 24 THEN NextDay(y, m, d)
  ELSE IF hours < 0 THEN PrevDay(y, m, d) ELSE <<y, m, d>>

\* format(d, "dd/MM/yyyy") of a local calendar day
FormatDay(day) ==
  Pad2(day[3]) \o <<"/">> \o Pad2(day[2]) \o <<"/">>
    \o Pad2(day[1] \div 100) \o Pad2(day[1] % 100)

\* the hours that the local time of the zone is ahead of UTC in the month m
\* (the months of the daylight-saving changes are left to neither side)
ZoneOffset(zone, m) ==
  CASE zone = "Australia/Sydney" -> IF m \in 5..9 THEN 10 ELSE 11
    [] zone = "Pacific/Honolulu" -> -10
    [] OTHER -> 0

\* the string has the form YYYY-MM-DDTHH:00Z with a valid day and hour
IsUtcHour(c) ==
  /\ Len(c) = 17
  /\ toDDMMYYYY([t |-> "str", n |-> 0, s |-> SubSeq(c, 1, 10)]) # <<>>
  /\ c[11] = "T" /\ IsDigit(c[12]) /\ IsDigit(c[13])
  /\ SubSeq(c, 14, 17) = <<":", "0", "0", "Z">>
  /\ DigitsValue(c, 12, 2) < 24

\* format(parseISO(c)) of the UTC hour c in the zone of the process
FormatUtcHour(c, zone) ==
  FormatDay(LocalDay(DigitsValue(c, 1, 4), DigitsValue(c, 6, 2), DigitsValue(c, 9, 2),
                     DigitsValue(c, 12, 2) + ZoneOffset(zone, DigitsValue(c, 6, 2))))

\* toDDMMYYYY(iso) in a process of the time zone: parseISO reads a calendar
\* date as local midnight and a time with Z as UTC, and format prints the
\* local calendar day of the process
toDDMMYYYYInZone(iso, zone) ==
  IF ~Truthy(iso) \/ iso.t # "str" THEN <<>>
  ELSE IF IsUtcHour(iso.s) THEN FormatUtcHour(iso.s, zone)
  ELSE toDDMMYYYY(iso)

RECURSIVE GroupDigits(_)
GroupDigits(ds) ==
  IF Len(ds) <= 3 THEN ds
  ELSE GroupDigits(SubSeq(ds, 1, Len(ds) - 3)) \o <<",">> \o SubSeq(ds, Len(ds) - 2, Len(ds))

\* formatMoney(n): en-AU currency with two fraction digits
formatMoney(n) ==
  LET a == IF n < 0 THEN -n ELSE n
  IN (IF n < 0 THEN <<"-">> ELSE <<>>) \o <<"$">> \o GroupDigits(NatDigits(a \div Scale))
       \o <<".">> \o Pad2(a % Scale)

\* the contract total that formats the grand total itself
ContractTotalOfGrand(grand) == IF grand = 0 THEN <<>> ELSE formatMoney(grand)

\* grand === 0 || !grand ? "" : formatMoney(grand * 2)
ContractTotal(grand) == IF grand = 0 THEN <<>> ELSE formatMoney(grand * 2)

\* getSitesNames: the site name once for each building of the site
getSitesNames(sites) ==
  FlatMap(sites, LAMBDA site :
    Map(site.buildings, LAMBDA b : String(Coalesce(site.site_name, Str(<<>>)))))

getCoverPageSitesNames(sites) ==
  <<"<div class=sites>">>
    \o Flat(Map(SelectSeq(getSitesNames(sites), LAMBDA nm : nm # <<>>),
                LAMBDA nm : <<"<div>">> \o nm \o <<"</div>">>))
    \o <<"</div>">>

\* the price of a row, absent when the price is zero
PriceLabel(price) ==
  IF price # 0 THEN <<"$">> \o NumToString(price) \o <<" + GST">> ELSE <<>>

\* the row of a service in its section: site and building name, and price
SectionItem(service) ==
  <<"<div class=avoid-break>">> \o String(service.site_name)
    \o (IF Truthy(service.building_name)
          THEN <<" - ">> \o String(service.building_name) ELSE <<>>)
    \o PriceLabel(getNumber(service.price))
    \o <<"</div>">>

\* the section of the services, nothing when there is none
SectionOf(services, title) ==
  IF services = <<>> THEN <<>>
  ELSE <<"<div class=service-section>", title>>
         \o Flat(Map(services, SectionItem)) \o <<"</div>">>

\* a section builder that lists the services of one type: nothing for a
\* null frequency or when no service has the type
SectionContent(sites, frequency, type, title) ==
  IF frequency.t = "null" THEN <<>>
  ELSE SectionOf(getServices(sites, type).items, title)

getChuteCleaningContent(sites, frequency) ==
  SectionContent(sites, frequency, "chute_cleaning", "Waste Chute Cleaning")

\* the equipment section groups by building and has no check for an empty
\* list of services
getEquipmentContentGroupBySite(sites, frequency) ==
  IF frequency.t = "null" THEN <<>>
  ELSE <<"<div class=service-section>", "Equipment Preventative Maintenance">>
         \o Flat(Map(getServices(sites, "equipment_maintenance").items, SectionItem))
         \o <<"</div>">>

getDoorInspectionContent(sites, frequency) ==
  SectionContent(sites, frequency, "hopper_door_inspection", "Self-Closing Hopper Door Inspection")

getWasteRoomCleanContent(sites, frequency) ==
  SectionContent(sites, frequency, "waste_room_pressure_clean", "Waste Room High Pressure Clean")

getWasteBinCleanContent(sites, frequency) ==
  SectionContent(sites, frequency, "bin_cleaning", "Wheelie Bin Cleaning")

getOdourControlContent(sites, frequency, units) ==
  SectionContent(sites, frequency, "odour_control", "EF Neutraliser")

\* isSelected of getIncentivesContent: the lower-cased label is compared
IsSelectedLabel(n) == n # <<>> /\ n # sNone

isSelected(v) == IsSelectedLabel(ToLowerCase(Trim(String(Coalesce(v, Str(<<>>))))))

BasicPerks ==
  <<"Price Lock Guarantee (24 Months)", "Priority Response Within 8 Hours",
    "Priority Booking">>

EssentialPerks ==
  BasicPerks \o <<"Flexible 21-Day Payment Terms", "10% Discounts on Parts",
                  "5% Service Pricing Discounts">>

PremiumPerks ==
  BasicPerks \o <<"Flexible 21-Day Payment Terms", "15% Discounts on Parts",
                  "10% Service Pricing Discounts",
                  "Complimentary Odour Control (First 3 Months)">>

\* the tier title and perks of getIncentivesContent for a service count
\* the tiers with ESSENTIAL from three services up
TierEssentialFromThree(serviceCount) ==
  IF serviceCount < 3 THEN ""
  ELSE IF serviceCount >= 3 /\ serviceCount < 6 THEN "ESSENTIAL"
  ELSE "PREMIUM"

Tier(serviceCount) ==
  IF serviceCount < 3 THEN ""
  ELSE IF serviceCount = 3 THEN "BASIC"
  ELSE IF serviceCount > 3 /\ serviceCount < 6 THEN "ESSENTIAL"
  ELSE "PREMIUM"

Incentives(serviceCount) ==
  IF serviceCount < 3 THEN <<>>
  ELSE IF serviceCount = 3 THEN BasicPerks
  ELSE IF serviceCount > 3 /\ serviceCount < 6 THEN EssentialPerks
  ELSE PremiumPerks

IncentiveRows(tier, incentives) ==
  Flat([i \in 1..Len(incentives) |->
          <<"<div class=section>">>
            \o (IF i = 1 THEN <<"<b>", tier, "</b>">> ELSE <<>>)
            \o <<incentives[i], "</div>">>])

IncentivesContent(serviceCount, tier, incentives) ==
  [called |-> TRUE, serviceCount |-> serviceCount, tier |-> tier,
   incentives |-> incentives,
   html |-> IF serviceCount < 3 THEN <<>>
            ELSE <<"INCENTIVES:">> \o IncentiveRows(tier, incentives)]

IncentivesOfCount(serviceCount) ==
  IncentivesContent(serviceCount, Tier(serviceCount), Incentives(serviceCount))

\* getIncentivesContent: its locals and the HTML it returns
getIncentivesContent(frequencies) ==
  IncentivesOfCount(
    Len(SelectSeq(<<frequencies.chuteCleaningFrequency,
                    frequencies.equipmentMaintenanceFrequency,
                    frequencies.selfClosingHopperDoorInspectionFrequency,
                    frequencies.wasteRoomCleaningFrequency,
                    frequencies.binCleaningFrequency,
                    frequencies.odourControlFrequency>>, isSelected)))

NoIncentivesCall ==
  [called |-> FALSE, serviceCount |-> 0, tier |-> "", incentives |-> <<>>, html |-> <<>>]

\* the template: every placeholder once, between markup
Template ==
  <<"<h1>", "{COMPANY_NAME}", "</h1>", "<abn>", "{ABN}", "</abn>",
    "<address>", "{ADDRESS}", "</address>", "<email>", "{ACCOUNTS_EMAILS}", "</email>",
    "<phone>", "{ACCOUNT_PHONE}", "</phone>", "<start>", "{START_DATE}", "</start>",
    "<end>", "{END_DATE}", "</end>", "<total>", "{CONTRACT_TOTAL}", "</total>",
    "<services>", "{SERVICE-CONTENT}", "</services>", "<sites>", "{SITE_NAME}", "</sites>",
    "<name>", "{NAME}", "</name>", "<signature>", "{SIGNATURE}", "</signature>",
    "<date>", "{DATE}", "</date>", "<sales>", "{SALESPERSON}", "</sales>",
    "<incentives>", "{INCENTIVES-CONTENT}", "</incentives>">>

\* the replacements of fillData, given its grand total, contract total and
\* incentives call
Filled(html, d, today, grand, contractTotal, incentivesCall) ==
  LET companyName == Coalesce(d.companyName, Str(<<>>))
      abn == Coalesce(d.abn, Str(<<>>))
      address ==
        safeJoin(<<d.businessStreetAddress, d.businessCity, d.businessPostcode,
                   d.businessState,
                   IF Truthy(d.businessStreetAddress) /\ Truthy(d.businessCity)
                        /\ Truthy(d.businessPostcode) /\ Truthy(d.businessState)
                     THEN Str(<<"Australia">>) ELSE Str(<<>>)>>, <<", ">>)
      accountsEmail == Coalesce(d.accountEmail, Str(<<>>))
      mobile == IF d.accountMobile.t = "str" THEN Trim(d.accountMobile.s) ELSE <<>>
      phone == IF d.accountPhone.t = "str" THEN Trim(d.accountPhone.s) ELSE <<>>
      phoneLine ==
        safeJoin(<<IF mobile # <<>> THEN Str(<<"Mobile: ">> \o mobile) ELSE Null,
                   IF phone # <<>> THEN Str(<<"Phone: ">> \o phone) ELSE Null>>, <<" | ">>)
      startDate == toDDMMYYYY(Coalesce(d.serviceAgreement.start_date, Str(<<>>)))
      endDate == toDDMMYYYY(Coalesce(d.serviceAgreement.end_date, Str(<<>>)))
      sites == d.serviceAgreement.sites
      servicesHTML ==
        getChuteCleaningContent(sites, d.frequencies.chuteCleaningFrequency)
          \o getEquipmentContentGroupBySite(sites, d.frequencies.equipmentMaintenanceFrequency)
          \o getDoorInspectionContent(sites,
                                      d.frequencies.selfClosingHopperDoorInspectionFrequency)
          \o getWasteRoomCleanContent(sites, d.frequencies.wasteRoomCleaningFrequency)
          \o getWasteBinCleanContent(sites, d.frequencies.binCleaningFrequency)
          \o getOdourControlContent(sites, d.frequencies.odourControlFrequency,
                                    d.odourControlUnits)
      siteNamesHTML == getCoverPageSitesNames(sites)
      signName == Coalesce(d.signFullName, Str(<<>>))
      trimmedDataURL == Coalesce(d.trimmedDataURL, Str(<<>>))
      salesperson == Coalesce(d.serviceAgreement.salesperson, Str(<<>>))
      signatureHTML ==
        IF Truthy(trimmedDataURL)
          THEN <<"<div class=signature>", "<img src=">> \o String(trimmedDataURL)
                 \o <<"/>", "</div>">>
          ELSE <<"<div class=signature>", "</div>">>
      o1 == safeReplaceAll(html, "{COMPANY_NAME}", companyName)
      o2 == safeReplaceAll(o1, "{ABN}", abn)
      o3 == safeReplaceAll(o2, "{ADDRESS}", Str(address))
      o4 == safeReplaceAll(o3, "{ACCOUNTS_EMAILS}", accountsEmail)
      o5 == safeReplaceAll(o4, "{ACCOUNT_PHONE}", Str(phoneLine))
      o6 == safeReplaceAll(o5, "{START_DATE}", Str(startDate))
      o7 == safeReplaceAll(o6, "{END_DATE}", Str(endDate))
      o8 == safeReplaceAll(o7, "{CONTRACT_TOTAL}", Str(contractTotal))
      o9 == safeReplaceAll(o8, "{SERVICE-CONTENT}", Str(servicesHTML))
      o10 == safeReplaceAll(o9, "{SITE_NAME}", Str(siteNamesHTML))
      o11 == safeReplaceAll(o10, "{NAME}", signName)
      o12 == safeReplaceAll(o11, "{SIGNATURE}", Str(signatureHTML))
      o13 == safeReplaceAll(o12, "{DATE}", Str(today))
      o14 == safeReplaceAll(o13, "{SALESPERSON}", salesperson)
      o15 == safeReplaceAll(o14, "{INCENTIVES-CONTENT}", Str(incentivesCall.html))
  IN [grand |-> grand, incentivesCall |-> incentivesCall,
      contractTotal |-> contractTotal, out |-> o15]

WithGrandTotal(html, d, today, grand) ==
  Filled(html, d, today, grand, ContractTotal(grand.result),
         IF Truthy(d.serviceAgreement.incentives)
           THEN getIncentivesContent(d.frequencies) ELSE NoIncentivesCall)

\* fillData(html, data) with today the module's TODAY_AU: the grand total
\* and incentives calls it makes, its contract total and the HTML it returns
fillData(html, d, today) ==
  WithGrandTotal(html, d, today,
                 computeGrandTotal(d.serviceAgreement.sites, d.frequencies,
                                   d.odourControlUnits, d.serviceAgreement.incentives))

\* v?.trim() raises a TypeError: v is neither null, undefined nor a string
TrimThrows(v) == v.t \notin {"null", "str"}

\* for (... of v ?? []) raises a TypeError: v is not iterable
NotIterable(v) == v.t \in {"num", "bool", "obj"}

\* (site?.site_name || "Unknown Site").trim() raises a TypeError
SiteNameThrows(site) ==
  Truthy(Prop(site, "site_name")) /\ Prop(site, "site_name").t # "str"

\* (b?.name ?? "").trim() raises a TypeError for a building of the site
BuildingNameThrows(buildings) ==
  \E j \in 1..Len(Elements(buildings)) : TrimThrows(Prop(Elements(buildings)[j], "name"))

\* summarizeEquipmentMaintenanceByBuilding raises a TypeError
summarizeEquipmentMaintenanceByBuildingThrows(sites) ==
  \/ NotIterable(sites)
  \/ \E i \in 1..Len(Elements(sites)) :
       \/ SiteNameThrows(Elements(sites)[i])
       \/ NotIterable(Prop(Elements(sites)[i], "buildings"))
       \/ BuildingNameThrows(Prop(Elements(sites)[i], "buildings"))

\* d?.serviceAgreement?.sites || []
SitesOrEmpty(sites) == IF Truthy(sites) THEN sites ELSE Arr(<<>>)

NoFrequencies ==
  [chuteCleaningFrequency |-> Null, equipmentMaintenanceFrequency |-> Null,
   selfClosingHopperDoorInspectionFrequency |-> Null, wasteRoomCleaningFrequency |-> Null,
   binCleaningFrequency |-> Null, odourControlFrequency |-> Null]

\* the six frequency fields of d
FrequenciesOf(d) == IF d.t = "obj" THEN d.fields.frequencies ELSE NoFrequencies

\* d?.odourControlUnits || {}
UnitsOrEmpty(d) == IF d.t = "obj" THEN d.fields.odourControlUnits ELSE <<>>

\* fillData raises a TypeError for d = data ?? {}
fillDataThrows(d) ==
  \/ TrimThrows(Prop(d, "accountMobile"))
  \/ TrimThrows(Prop(d, "accountPhone"))
  \/ computeGrandTotalThrows(SitesOrEmpty(Prop(Prop(d, "serviceAgreement"), "sites")))
  \/ /\ FrequenciesOf(d).equipmentMaintenanceFrequency.t # "null"
     /\ summarizeEquipmentMaintenanceByBuildingThrows(
          SitesOrEmpty(Prop(Prop(d, "serviceAgreement"), "sites")))

\* the fields of d?.serviceAgreement that fillData reads
AgreementOf(serviceAgreement) ==
  [sites |-> SitesOf(SitesOrEmpty(Prop(serviceAgreement, "sites"))),
   incentives |-> Prop(serviceAgreement, "incentives"),
   start_date |-> Prop(serviceAgreement, "start_date"),
   end_date |-> Prop(serviceAgreement, "end_date"),
   salesperson |-> Prop(serviceAgreement, "salesperson")]

\* the fields of d = data ?? {} that fillData reads
DataOf(d) ==
  [companyName |-> Prop(d, "companyName"), abn |-> Prop(d, "abn"),
   businessStreetAddress |-> Prop(d, "businessStreetAddress"),
   businessCity |-> Prop(d, "businessCity"),
   businessPostcode |-> Prop(d, "businessPostcode"),
   businessState |-> Prop(d, "businessState"),
   accountEmail |-> Prop(d, "accountEmail"),
   accountMobile |-> Prop(d, "accountMobile"), accountPhone |-> Prop(d, "accountPhone"),
   signFullName |-> Prop(d, "signFullName"), trimmedDataURL |-> Prop(d, "trimmedDataURL"),
   serviceAgreement |-> AgreementOf(Prop(d, "serviceAgreement")),
   frequencies |-> FrequenciesOf(d),
   odourControlUnits |-> UnitsOrEmpty(d)]

\* ------------------------------------------------------------------------
\* Inputs
\* ------------------------------------------------------------------------
\* the largest unit count of the odour-control units map
MaxUnits == 2

\* the largest chute count of the first chute-cleaning service
MaxChutes == 2

\* the largest price rise, in whole dollars
MaxRaise == 1

Text(a) == Str(<<a>>)

Service(id, type, price, chutes, quantity) ==
  [id |-> id, type |-> type, price |-> price, chutes |-> chutes, quantity |-> quantity]

\* two sites, three buildings, one service of each category and a second
\* chute-cleaning service; the first chute service and the odour-control
\* price are parameters
Sites(chutePrice, chuteCount, odourPrice) ==
  <<[site_name |-> Text("Site A"), simpro_site_id |-> Text("site-a"),
     buildings |->
       <<[id |-> Text("b1"), name |-> Text("Tower 1"),
          services |->
            <<Service("chute1", "chute_cleaning", chutePrice, chuteCount, Null),
              Service("hopper1", "hopper_door_inspection",
                      Str(<<"2", "0", "0", ".", "0", "0">>), Str(<<"3">>), Null),
              Service("waste1", "waste_room_pressure_clean",
                      Str(<<"6", "0", "0", ".", "0", "0">>), Null, Null)>>],
         [id |-> Text("b2"), name |-> Str(<<>>),
          services |->
            <<Service("equip1", "equipment_maintenance",
                      Str(<<"$", "3", "1", "0", ".", "0", "0">>), Null, Whole(2)),
              Service("bin1", "bin_cleaning", Whole(200), Null, Whole(3))>>]>>],
    [site_name |-> Text("Site B"), simpro_site_id |-> Text("site-b"),
     buildings |->
       <<[id |-> Text("b3"), name |-> Null,
          services |->
            <<Service("odour1", "odour_control", odourPrice, Null, Null),
              Service("chute2", "chute_cleaning",
                      Str(<<"1", ",", "2", "5", "0", ".", "4", "0">>), Str(<<"1">>), Null)>>]>>]>>

s450 == <<"$", "4", "5", "0", ".", "0", "0">>

\* prices: numbers, formatted strings, a comma decimal, negative and
\* unparseable ones, and a missing price
PriceInputs ==
  {Whole(450), Str(s450), Str(<<"3", "0", "0", ",", "0", "0">>), Whole(-100),
   Str(<<"-", "5">>), Str(<<"a", "b", "c">>), Null, Whole(0)}

ChuteInputs ==
  {Whole(k) : k \in 0..MaxChutes} \cup {Str(<<"2">>), Null, Whole(-1)}

OdourPriceInputs == {Whole(299), Str(<<"-", "2", "9", "9">>)}

UnitsInputs ==
  {<<>>} \cup {[id \in {"odour1"} |-> Whole(k)] : k \in 0..MaxUnits}
    \cup {[id \in {"odour1"} |-> Whole(-1)], [id \in {"other"} |-> Whole(1)]}

\* the labels of a frequency selection
FrequencyLabels ==
  {Null, Str(<<>>), Str(<<" ">>), Str(sNone), Str(<<" ">> \o sNone \o <<" ">>),
   Str(<<"N", "o", "n", "e">>), Str(<<"N", "O", "N", "E">>),
   Str(sQuarterly), Str(<<"Q", "u", "a", "r", "t", "e", "r", "l", "y">>),
   Str(sYearly), Str(<<"Y", "E", "A", "R", "L", "Y">>), Str(sSixMonthly),
   Str(s6Monthly), Str(sSixSpaceMonthly), Str(<<" ">> \o sSixMonthly),
   Str(<<"m", "o", "n", "t", "h", "l", "y">>), Str(<<"w", "e", "e", "k", "l", "y">>)}

FrequencyKeys ==
  <<"chuteCleaningFrequency", "equipmentMaintenanceFrequency",
    "selfClosingHopperDoorInspectionFrequency", "wasteRoomCleaningFrequency",
    "binCleaningFrequency", "odourControlFrequency">>

KeySet == {FrequencyKeys[i] : i \in 1..6}

Frequencies(sel) ==
  [chuteCleaningFrequency |-> sel["chuteCleaningFrequency"],
   equipmentMaintenanceFrequency |-> sel["equipmentMaintenanceFrequency"],
   selfClosingHopperDoorInspectionFrequency |->
     sel["selfClosingHopperDoorInspectionFrequency"],
   wasteRoomCleaningFrequency |-> sel["wasteRoomCleaningFrequency"],
   binCleaningFrequency |-> sel["binCleaningFrequency"],
   odourControlFrequency |-> sel["odourControlFrequency"]]

\* every category null, "None" or "quarterly"
SweepSelections == [KeySet -> {Null, Str(<<"N", "o", "n", "e">>), Str(sQuarterly)}]

KeyIndex(key) == CHOOSE i \in 1..6 : FrequencyKeys[i] = key

\* one category with any label, and "quarterly" for the m categories that
\* follow it in FrequencyKeys, null for the rest
LabelSelections ==
  {[k \in KeySet |->
      IF k = key THEN label
      ELSE IF ((KeyIndex(k) - KeyIndex(key)) + 6) % 6 <= m THEN Str(sQuarterly)
      ELSE Null] :
     key \in KeySet, label \in FrequencyLabels, m \in 0..5}

\* the selections of the price sweep: one category, or all of them
PriceSelections ==
  {[k \in KeySet |-> IF k \in ks THEN Str(sQuarterly) ELSE Null] :
     ks \in {{"chuteCleaningFrequency"}, {"odourControlFrequency"}, KeySet}}
  \cup {[k \in KeySet |-> Str(sYearly)]}

\* a request; its six frequency fields are grouped under `frequencies`
Request(sites, sel, units, incentives) ==
  [companyName |-> Text("Acme Pty Ltd"), abn |-> Text("51 824 753 556"),
   businessStreetAddress |-> Text("1 George St"), businessCity |-> Text("Sydney"),
   businessPostcode |-> Text("2000"), businessState |-> Text("NSW"),
   accountEmail |-> Text("accounts@acme.example"),
   accountMobile |-> Null, accountPhone |-> Str(<<" ", "02 9000 0000">>),
   signFullName |-> Text("Alex Doe"), trimmedDataURL |-> Null,
   serviceAgreement |->
     [sites |-> sites, incentives |-> incentives,
      start_date |-> Str(<<"2", "0", "2", "5", "-", "1", "0", "-", "2", "3">>),
      end_date |-> Str(<<"2", "0", "2", "7", "-", "1", "0", "-", "2", "3">>),
      salesperson |-> Text("Laura Harrison")],
   frequencies |-> Frequencies(sel),
   odourControlUnits |-> units]

StandardSites == Sites(Str(s450), Whole(2), Whole(299))

\* one site with one building that holds the service svc
SingleSites(svc) ==
  <<[site_name |-> Text("Site A"), simpro_site_id |-> Text("site-a"),
     buildings |-> <<[id |-> Text("b1"), name |-> Text("Tower 1"), services |-> <<svc>>]>>]>>

ServiceTypes ==
  <<"chute_cleaning", "equipment_maintenance", "hopper_door_inspection",
    "waste_room_pressure_clean", "bin_cleaning", "odour_control">>

SingleServices ==
  {Service("odour1", ServiceTypes[i], p, w, w) :
     i \in 1..6, p \in {Whole(450), Whole(299), Str(<<"-", "5">>)},
     w \in {Whole(1), Whole(2), Null}}

OneUnit == [id \in {"odour1"} |-> Whole(1)]

\* the requests: a sweep of the frequency selections over the standard
\* sites, a sweep of the prices, chute counts and unit counts, and the
\* single-service agreements
Requests ==
  {Request(StandardSites, sel, OneUnit, inc) :
     sel \in SweepSelections \cup LabelSelections, inc \in {Bool(TRUE), Bool(FALSE)}}
  \cup
  {Request(Sites(p, c, o), sel, u, inc) :
     p \in PriceInputs, c \in ChuteInputs, o \in OdourPriceInputs,
     sel \in PriceSelections, u \in UnitsInputs, inc \in {Bool(TRUE), Bool(FALSE)}}
  \cup
  {Request(SingleSites(svc), sel, OneUnit, inc) :
     svc \in SingleServices, sel \in PriceSelections, inc \in {Bool(FALSE), Null}}

\* ------------------------------------------------------------------------
\* The calls
\* ------------------------------------------------------------------------
NoCall ==
  [chuteAnnual |-> 0, equipAnnual |-> 0, hopperAnnual |-> 0, wasteAnnual |-> 0,
   binAnnual |-> 0, odourMult |-> 0, odourAnnual |-> 0, subtotal |-> 0, serviceCount |-> 0,
   discountPct |-> 0, discountAmt |-> 0, result |-> 0]

GrandTotalOf(d) ==
  computeGrandTotal(d.serviceAgreement.sites, d.frequencies, d.odourControlUnits,
                    d.serviceAgreement.incentives)

NoFill == [contractTotal |-> <<>>, out |-> <<>>]

\* no function has been called on its own
NoFunctionCall ==
  [fn |-> "", arg |-> Null, after |-> Null, threw |-> FALSE, ret |-> Null]

NoEnv ==
  [AWS_REGION |-> FALSE, S3_BUCKET_NAME |-> FALSE, AWS_ACCESS_KEY_ID |-> FALSE,
   AWS_SECRET_ACCESS_KEY |-> FALSE]

NoOpts == [region |-> FALSE, bucket |-> FALSE]

EmptyBucket == [puts |-> <<>>, signed |-> <<>>]

\* no call of renderPdfFromHtmlFile is in flight
NoRender ==
  /\ now = 0
  /\ files = <<>>
  /\ renders = <<>>

\* no handler invocation is under way
NoInvocation ==
  /\ event = Null
  /\ env = NoEnv
  /\ opts = NoOpts
  /\ hpc = "idle"
  /\ pdfBuffer = Null
  /\ s3 = EmptyBucket
  /\ trace = <<>>
  /\ error = ""
  /\ response = Null

\* neither the handler nor renderPdfFromHtmlFile is running
HandlerIdle == NoInvocation /\ NoRender

\* the dates of the days the process runs through, in Sydney
Days ==
  << <<"0", "5", "/", "1", "1", "/", "2", "0", "2", "6">>,
     <<"0", "6", "/", "1", "1", "/", "2", "0", "2", "6">> >>

\* the date in Sydney at the time of the call
TodayAtCall == sydneyDate

\* const today = TODAY_AU: the value that was computed when the module loaded
Today == TODAY_AU

\* the module is loaded: TODAY_AU is set from the date of the load and
\* nothing has been called
Loaded ==
  /\ cgt = NoCall
  /\ prevGrand = 0
  /\ sydneyDate = Days[1]
  /\ TODAY_AU = sydneyDate
  /\ gic = NoIncentivesCall
  /\ fd = NoFill

\* the module is loaded and a request is at hand
Init ==
  /\ pc = "ready"
  /\ data \in Requests
  /\ Loaded
  /\ call = NoFunctionCall
  /\ HandlerIdle

\* a call of computeGrandTotal with the request's fields
ComputeGrandTotal ==
  /\ pc = "ready"
  /\ cgt' = GrandTotalOf(data)
  /\ pc' = "computed"
  /\ UNCHANGED <<data, prevGrand, TODAY_AU, gic, fd, call, hvars>>

\* a second call with the price of one service raised and nothing else changed
RaisePrice ==
  /\ pc = "computed"
  /\ \E i \in 1..Len(data.serviceAgreement.sites) :
       \E j \in 1..Len(data.serviceAgreement.sites[i].buildings) :
         \E k \in 1..Len(data.serviceAgreement.sites[i].buildings[j].services) :
           \E r \in 1..MaxRaise :
             data' = [data EXCEPT
                        !.serviceAgreement.sites[i].buildings[j].services[k].price =
                          Num(getNumber(@) + r * Scale)]
  /\ cgt' = GrandTotalOf(data')
  /\ prevGrand' = cgt.result
  /\ pc' = "repriced"
  /\ UNCHANGED <<TODAY_AU, gic, fd, call, hvars>>

\* what a call of fillData that returns r leaves behind
Returns(r) ==
  /\ cgt' = r.grand
  /\ gic' = r.incentivesCall
  /\ fd' = [contractTotal |-> r.contractTotal, out |-> r.out]

\* a call of fillData on the template with the request
FillData ==
  /\ pc = "ready"
  /\ Returns(fillData(Template, data, Today))
  /\ pc' = "filled"
  /\ UNCHANGED <<data, prevGrand, TODAY_AU, call, hvars>>

Next == ComputeGrandTotal \/ RaisePrice \/ FillData

Spec == Init /\ [][Next]_vars

\* ------------------------------------------------------------------------
\* The functions called on their own
\* ------------------------------------------------------------------------
\* the longest text of a getNumber argument
MaxText == 3

\* the characters of the texts: digits, separators, a sign, a currency
\* symbol, a blank and a letter
TextChars == {"0", "1", "5", ",", ".", "-", "$", " ", "a"}

Texts == UNION {[1..k -> TextChars] : k \in 0..MaxText}

s1250 == <<"1", ",", "2", "5", "0", ".", "5", "0">>

s300 == <<"3", "0", "0", ",", "0", "0">>

NumberInputs ==
  {Str(t) : t \in Texts}
    \cup {Str(s1250), Str(s300), Str(s450), Str(<<"-", "$", "4", "5", "0">>),
          Str(<<"1", ",", "2", "5", "0", ",", "0", "0", "0">>)}
    \cup {Num(n) : n \in {-100 * Scale, -1, 0, 50, 450 * Scale}}
    \cup {Null, Bool(TRUE), Bool(FALSE)}

\* no request is at hand
EmptyRequest == Request(<<>>, [k \in KeySet |-> Null], <<>>, Null)

\* the module is loaded and no function has been called
FunctionInit ==
  /\ pc = "idle"
  /\ data = EmptyRequest
  /\ Loaded
  /\ call = NoFunctionCall
  /\ HandlerIdle

\* the argument after a call that takes the sites out of their array
InputSpliced(fn, arg) ==
  IF fn = "getServices" THEN [arg EXCEPT !.sites = Null] ELSE arg

\* the argument of fn as it is after the call: the functions read their
\* input through flatMap, filter, map, for..of and object spread, and sort
\* and assign only the arrays and objects that they have made themselves
InputAfter(fn, arg) == arg

\* fn was called with arg and returned ret
Returned(fn, arg, ret) ==
  /\ call.fn = ""
  /\ call' = [fn |-> fn, arg |-> arg, after |-> InputAfter(fn, arg),
              threw |-> FALSE, ret |-> ret]
  /\ UNCHANGED <<pc, data, cgt, prevGrand, TODAY_AU, gic, fd, hvars>>

\* a call of getNumber
GetNumber == \E val \in NumberInputs : Returned("getNumber", val, getNumber(val))

\* a chute-cleaning service that has a site_name and a building_id field
NamedService ==
  [id |-> "chute3", type |-> "chute_cleaning", price |-> Whole(450), chutes |-> Whole(1),
   quantity |-> Null, site_name |-> Text("Depot"), building_id |-> Text("b9")]

\* a site without buildings and a site whose two buildings hold two
\* services each, one of them with site and building fields of its own
MixedSites ==
  <<[site_name |-> Null, simpro_site_id |-> Null, buildings |-> <<>>],
    [site_name |-> Text("Site C"), simpro_site_id |-> Text("site-c"),
     buildings |->
       <<[id |-> Text("b4"), name |-> Text("Tower 4"),
          services |->
            <<Service("bin2", "bin_cleaning", Whole(200), Null, Null),
              Service("chute4", "chute_cleaning", Whole(450), Whole(2), Null)>>],
         [id |-> Text("b5"), name |-> Str(<<>>),
          services |->
            <<NamedService,
              Service("chute5", "chute_cleaning", Whole(500), Whole(1), Null)>>]>>]>>

SitesInputs ==
  {<<>>, StandardSites, MixedSites, StandardSites \o MixedSites, MixedSites \o StandardSites}
    \cup {SingleSites(svc) : svc \in SingleServices}

TypeInputs == {ServiceTypes[i] : i \in 1..6} \cup {"", "window_cleaning"}

\* the sites as the caller passes them: arrays of objects
BuildingAsPassed(b) == Obj([b EXCEPT !.services = Arr(Map(@, Obj))])

SiteAsPassed(site) == Obj([site EXCEPT !.buildings = Arr(Map(@, BuildingAsPassed))])

SitesAsPassed(sites) == Arr(Map(sites, SiteAsPassed))

\* a site whose buildings property is v
SiteWithBuildings(v) ==
  Obj([site_name |-> Text("Site D"), simpro_site_id |-> Text("site-d"), buildings |-> v])

\* a building whose services property is v
BuildingWithServices(v) == Obj([id |-> Text("b6"), name |-> Text("Tower 6"), services |-> v])

\* sites that are absent or no array, sites and buildings that are no
\* objects, and buildings and services that are absent, no array, or
\* arrays with elements that are no objects
UntypedSites ==
  {Null, Str(<<"n", "o", "n", "e">>), Whole(3),
   Arr(<<Null, Whole(3)>>),
   Arr(<<SiteWithBuildings(Null)>>),
   Arr(<<SiteWithBuildings(Arr(<<Null, BuildingWithServices(Null)>>))>>),
   Arr(<<SiteWithBuildings(Arr(<<BuildingWithServices(
           Arr(<<Null, Whole(1),
                 Obj(Service("chute6", "chute_cleaning", Whole(450), Whole(1), Null))>>))>>))>>),
   Arr(<<SiteWithBuildings(Str(<<"n", "o", "n", "e">>))>>),
   Arr(<<SiteWithBuildings(Whole(2))>>),
   Arr(<<SiteWithBuildings(BuildingWithServices(Arr(<<>>)))>>),
   Arr(<<SiteWithBuildings(Arr(<<BuildingWithServices(Whole(3))>>))>>),
   Arr(<<SiteWithBuildings(Arr(<<BuildingWithServices(Bool(TRUE))>>))>>)}

PassedSitesInputs == {SitesAsPassed(sites) : sites \in SitesInputs} \cup UntypedSites

\* fn was called with arg and raised an exception
Raised(fn, arg) ==
  /\ call.fn = ""
  /\ call' = [fn |-> fn, arg |-> arg, after |-> InputAfter(fn, arg),
              threw |-> TRUE, ret |-> Null]
  /\ UNCHANGED <<pc, data, cgt, prevGrand, TODAY_AU, gic, fd, hvars>>

\* a call of getServices
GetServices ==
  \E sites \in PassedSitesInputs, type \in TypeInputs :
    IF getServicesThrows(sites, type)
      THEN Raised("getServices", [sites |-> sites, type |-> type])
      ELSE Returned("getServices", [sites |-> sites, type |-> type],
                    getServices(SitesOf(sites), type))

\* a call of computeGrandTotal on its own
GrandTotalCall ==
  \E sites \in PassedSitesInputs, sel \in PriceSelections, inc \in {Bool(TRUE), Null} :
    IF computeGrandTotalThrows(sites)
      THEN Raised("computeGrandTotal",
                  [sites |-> sites, frequencies |-> Frequencies(sel), incentives |-> inc])
      ELSE Returned("computeGrandTotal",
                    [sites |-> sites, frequencies |-> Frequencies(sel), incentives |-> inc],
                    computeGrandTotal(SitesOf(sites), Frequencies(sel), OneUnit, inc).result)

\* the request as the caller passes it
DataAsPassed(request) ==
  Obj([request EXCEPT !.serviceAgreement = Obj([@ EXCEPT !.sites = SitesAsPassed(@)])])

\* the object {}
EmptyData ==
  Obj([companyName |-> Null, abn |-> Null, businessStreetAddress |-> Null,
       businessCity |-> Null, businessPostcode |-> Null, businessState |-> Null,
       accountEmail |-> Null, accountMobile |-> Null, accountPhone |-> Null,
       signFullName |-> Null, trimmedDataURL |-> Null, serviceAgreement |-> Null,
       frequencies |-> NoFrequencies, odourControlUnits |-> <<>>])

\* the well-formed requests of the calls of fillData
FilledRequests ==
  {Request(sites, sel, OneUnit, inc) :
     sites \in {<<>>, StandardSites, MixedSites}, sel \in PriceSelections,
     inc \in {Bool(TRUE), Null}}

\* a request with the sites v, as passed
WithSites(request, v) ==
  Obj([request EXCEPT !.serviceAgreement = Obj([@ EXCEPT !.sites = v])])

\* requests with a field of another type than a well-formed request has: a
\* phone number that is a number, and sites, buildings, services and names
\* of any type
UntypedData ==
  {Null, EmptyData, Whole(3), Str(<<"n", "o", "n", "e">>)}
    \cup {Obj([EmptyData.fields EXCEPT ![f] = v]) :
            f \in {"accountMobile", "accountPhone", "companyName"},
            v \in {Whole(412), Str(<<" ", "0412 000 000">>), Bool(TRUE)}}
    \cup {WithSites(request, v) : request \in FilledRequests, v \in UntypedSites}
    \cup {WithSites(request, Arr(<<Obj([site_name |-> nm, simpro_site_id |-> Null,
                                        buildings |-> Arr(<<Obj([id |-> Null, name |-> bn,
                                                                 services |-> Null])>>)])>>)) :
            request \in FilledRequests, nm \in {Whole(0), Whole(7), Null},
            bn \in {Whole(7), Null}}

\* requests whose values hold the text of a placeholder: a company name
\* with {ABN}, an ABN with {COMPANY_NAME}, a signatory with {SIGNATURE}
QuotingRequests ==
  {[EmptyRequest EXCEPT !.companyName = Str(<<"Acme ", "{ABN}">>)],
   [EmptyRequest EXCEPT !.abn = Str(<<"{COMPANY_NAME}">>)],
   [EmptyRequest EXCEPT !.signFullName = Str(<<"{SIGNATURE}">>)]}

PassedDataInputs ==
  {DataAsPassed(request) : request \in FilledRequests \cup QuotingRequests}
    \cup UntypedData

\* a call of fillData on the template
FillDataCall ==
  \E d \in PassedDataInputs :
    IF fillDataThrows(d)
      THEN Raised("fillData", d)
      ELSE Returned("fillData", d, fillData(Template, DataOf(d), Today).out)

\* midnight passes in Sydney while the process is waiting for a call
DayPasses ==
  /\ call.fn = ""
  /\ \E k \in 1..(Len(Days) - 1) : sydneyDate = Days[k] /\ sydneyDate' = Days[k + 1]
  /\ UNCHANGED <<pc, data, cgt, prevGrand, TODAY_AU, gic, fd, call, event, env, opts,
                 hpc, pdfBuffer, s3, trace, error, response, now, files, renders>>

\* the time zones a process may run in (TZ)
Zones == {"UTC", "Australia/Sydney", "Pacific/Honolulu"}

\* calendar dates, UTC timestamps, strings that are no date, and values
\* that are no string
DateInputs ==
  {Str(c) : c \in {<<"2", "0", "2", "4", "-", "0", "3", "-", "1", "0">>,
                      <<"2", "0", "2", "4", "-", "0", "2", "-", "2", "9">>,
                      <<"2", "0", "2", "3", "-", "0", "2", "-", "2", "9">>,
                      <<"2", "0", "2", "4", "-", "1", "3", "-", "0", "1">>,
                      <<"2", "0", "2", "4", "-", "0", "3", "-", "1", "0", "T", "2", "0", ":", "0", "0", "Z">>,
                      <<"2", "0", "2", "4", "-", "0", "3", "-", "1", "0", "T", "0", "2", ":", "0", "0", "Z">>,
                      <<"2", "0", "2", "4", "-", "1", "2", "-", "3", "1", "T", "1", "5", ":", "0", "0", "Z">>,
                      <<"2", "0", "2", "4", "-", "0", "7", "-", "0", "1", "T", "1", "3", ":", "0", "0", "Z">>,
                      <<"2", "0", "2", "4", "-", "0", "7", "-", "0", "1", "T", "1", "4", ":", "0", "0", "Z">>,
                      <<"2", "0", "2", "4", "-", "0", "1", "-", "0", "1", "T", "0", "5", ":", "0", "0", "Z">>,
                      <<"2", "0", "2", "4", "-", "0", "3", "-", "1", "0", "T", "2", "5", ":", "0", "0", "Z">>,
                      <<"a", "b", "c">>}}
    \cup {Str(<<>>), Null, Num(20240310 * Scale), Bool(TRUE)}

\* a call of toDDMMYYYY in a process of some time zone
ToDDMMYYYY ==
  \E iso \in DateInputs, zone \in Zones :
    Returned("toDDMMYYYY", [iso |-> iso, TZ |-> zone], toDDMMYYYYInZone(iso, zone))

FunctionNext ==
  \/ GetNumber \/ GetServices \/ GrandTotalCall \/ FillDataCall \/ ToDDMMYYYY
  \/ DayPasses

FunctionSpec == FunctionInit /\ [][FunctionNext]_vars

\* ------------------------------------------------------------------------
\* The handler (src/index.js), renderPdfFromHtmlFile and uploadPdfAndGetUrl
\* (src/renderPdf.js)
\* ------------------------------------------------------------------------
\* an event with the data field v; Null is the field an event lacks
Event(v) == Obj([data |-> v])

\* no event, an event without data, with {}, with well-formed data and with
\* data that make fillData raise
Events ==
  {Null, Event(Null), Event(EmptyData),
   Event(DataAsPassed(Request(StandardSites, [k \in KeySet |-> Str(sQuarterly)], OneUnit,
                              Bool(TRUE)))),
   Event(Obj([EmptyData.fields EXCEPT !.accountMobile = Whole(412)])),
   Event(WithSites(EmptyRequest, Arr(<<SiteWithBuildings(Whole(2))>>)))}

Envs ==
  [AWS_REGION : BOOLEAN, S3_BUCKET_NAME : BOOLEAN, AWS_ACCESS_KEY_ID : BOOLEAN,
   AWS_SECRET_ACCESS_KEY : BOOLEAN]

Opts == [region : BOOLEAN, bucket : BOOLEAN]

\* a buffer that holds the PDF of html
Pdf(html) == [t |-> "buffer", html |-> html]

\* the handler is invoked with an event, or uploadPdfAndGetUrl is called
\* with a buffer and options
HandlerInit ==
  /\ pc = "idle"
  /\ data = EmptyRequest
  /\ Loaded
  /\ call = NoFunctionCall
  /\ env \in Envs
  /\ \/ hpc = "handler" /\ event \in Events /\ opts = NoOpts /\ pdfBuffer = Null
     \/ hpc = "uploadPdfAndGetUrl" /\ event = Null /\ opts \in Opts
          /\ pdfBuffer = Pdf(<<"<h1>", "</h1>">>)
  /\ s3 = EmptyBucket
  /\ trace = <<>>
  /\ error = ""
  /\ response = Null
  /\ NoRender

\* the step named step is done and control is at position next
Step(step, next) ==
  /\ trace' = Append(trace, step)
  /\ hpc' = next

\* the step named step rejects with the error e and control is at next
Fail(step, e, next) ==
  /\ trace' = Append(trace, step)
  /\ error' = e
  /\ hpc' = next

\* the module state that only a call of fillData changes
fillVars == <<pc, data, cgt, prevGrand, TODAY_AU, gic, fd, call>>

\* handler: event.data is read inside the try block
Invoke ==
  /\ hpc = "handler"
  /\ IF event.t = "null"
       THEN Fail("handler", "TypeError", "catch")
       ELSE Step("handler", "launchBrowser") /\ UNCHANGED error
  /\ UNCHANGED <<fillVars, rvars, event, env, opts, pdfBuffer, s3, response>>

\* renderPdfFromHtmlFile: launchBrowser(), before the try block
LaunchBrowser ==
  /\ hpc = "launchBrowser"
  /\ \/ Step("launchBrowser", "newPage") /\ UNCHANGED error
     \/ Fail("launchBrowser", "launch failed", "catch")
  /\ UNCHANGED <<fillVars, rvars, event, env, opts, pdfBuffer, s3, response>>

\* browser.newPage() and the page listeners
NewPage ==
  /\ hpc = "newPage"
  /\ \/ Step("newPage", "readFile") /\ UNCHANGED error
     \/ Fail("newPage", "newPage failed", "finally")
  /\ UNCHANGED <<fillVars, rvars, event, env, opts, pdfBuffer, s3, response>>

\* fs.readFile(htmlPath) and the base href
ReadTemplate ==
  /\ hpc = "readFile"
  /\ \/ Step("readFile", "fillData") /\ UNCHANGED error
     \/ Fail("readFile", "ENOENT", "finally")
  /\ UNCHANGED <<fillVars, rvars, event, env, opts, pdfBuffer, s3, response>>

\* html = fillData(html, data) for the data d
FillTemplate(d) ==
  IF fillDataThrows(d)
    THEN /\ Fail("fillData", "TypeError", "finally")
         /\ UNCHANGED fillVars
    ELSE /\ Step("fillData", "writeFile")
         /\ data' = DataOf(d)
         /\ Returns(fillData(Template, data', Today))
         /\ pc' = "filled"
         /\ UNCHANGED <<prevGrand, TODAY_AU, call, error>>

\* renderPdfFromHtmlFile: fillData on event.data, {} for undefined
Fill ==
  /\ hpc = "fillData"
  /\ FillTemplate(Coalesce(Prop(event, "data"), EmptyData))
  /\ UNCHANGED <<event, env, opts, pdfBuffer, s3, response, rvars>>

\* fs.writeFile of the filled HTML to the temporary file
WriteFile ==
  /\ hpc = "writeFile"
  /\ \/ Step("writeFile", "goto") /\ UNCHANGED error
     \/ Fail("writeFile", "ENOSPC", "finally")
  /\ UNCHANGED <<fillVars, rvars, event, env, opts, pdfBuffer, s3, response>>

\* page.goto and the wait for fonts and images
LoadPage ==
  /\ hpc = "goto"
  /\ \/ Step("goto", "pdf") /\ UNCHANGED error
     \/ Fail("goto", "navigation failed", "finally")
  /\ UNCHANGED <<fillVars, rvars, event, env, opts, pdfBuffer, s3, response>>

\* page.pdf
PrintPdf ==
  /\ hpc = "pdf"
  /\ \/ Step("pdf", "finally") /\ pdfBuffer' = Pdf(fd.out) /\ UNCHANGED error
     \/ Fail("pdf", "pdf failed", "finally") /\ UNCHANGED pdfBuffer
  /\ UNCHANGED <<fillVars, rvars, event, env, opts, s3, response>>

\* finally: browser.close(); then the buffer is returned to the handler or
\* the error is thrown on
CloseBrowser ==
  /\ hpc = "finally"
  /\ \/ /\ Step("close", IF error = "" THEN "uploadPdfAndGetUrl" ELSE "catch")
        /\ UNCHANGED error
     \/ Fail("close", "close failed", "catch")
  /\ UNCHANGED <<fillVars, rvars, event, env, opts, pdfBuffer, s3, response>>

\* the call was made by the handler
InHandler == trace # <<>> /\ trace[1] = "handler"

\* where an error thrown by uploadPdfAndGetUrl goes
Thrown == IF InHandler THEN "catch" ELSE "raised"

MissingConfig == "Missing required config: AWS_REGION and S3_BUCKET_NAME must be set."

MissingKeys == "Missing AWS_ACCESS_KEY_ID / AWS_SECRET_ACCESS_KEY in environment."

\* the configuration check that only asks for the region and the bucket
ConfigErrorWithoutKeys(o, e) ==
  IF ~(o.region \/ e.AWS_REGION) \/ ~(o.bucket \/ e.S3_BUCKET_NAME) THEN MissingConfig
  ELSE ""

\* the error of the configuration checks of uploadPdfAndGetUrl, "" for none
ConfigError(o, e) ==
  IF ~(o.region \/ e.AWS_REGION) \/ ~(o.bucket \/ e.S3_BUCKET_NAME) THEN MissingConfig
  ELSE IF ~e.AWS_ACCESS_KEY_ID \/ ~e.AWS_SECRET_ACCESS_KEY THEN MissingKeys
  ELSE ""

\* the checks with the outcome e
Checked(e) ==
  IF e # ""
    THEN Fail("uploadPdfAndGetUrl", e, Thrown)
    ELSE Step("uploadPdfAndGetUrl", "PutObject") /\ UNCHANGED error

\* uploadPdfAndGetUrl: the region, bucket and credentials checks
CheckConfig ==
  /\ hpc = "uploadPdfAndGetUrl"
  /\ Checked(ConfigError(opts, env))
  /\ UNCHANGED <<fillVars, rvars, event, env, opts, pdfBuffer, s3, response>>

\* the key of the uploaded object
Key == "Service-Agreement.pdf"

\* s3.send(new PutObjectCommand(putParams))
PutObject ==
  /\ hpc = "PutObject"
  /\ \/ /\ Step("PutObject", "getSignedUrl")
        /\ s3' = [s3 EXCEPT !.puts = Append(@, [Key |-> Key, Body |-> pdfBuffer])]
        /\ UNCHANGED error
     \/ Fail("PutObject", "AccessDenied", Thrown) /\ UNCHANGED s3
  /\ UNCHANGED <<fillVars, rvars, event, env, opts, pdfBuffer, response>>

\* the presigned URL of the object with the key
PresignedUrl(key) == <<"https://", key, "?X-Amz-Signature">>

\* getSignedUrl for a GetObject of the key
GetSignedUrl ==
  /\ hpc = "getSignedUrl"
  /\ \/ /\ Step("getSignedUrl", IF InHandler THEN "return" ELSE "returned")
        /\ s3' = [s3 EXCEPT !.signed = Append(@, PresignedUrl(Key))]
        /\ UNCHANGED error
     \/ Fail("getSignedUrl", "signing failed", Thrown) /\ UNCHANGED s3
  /\ UNCHANGED <<fillVars, rvars, event, env, opts, pdfBuffer, response>>

\* the response that returns the key of the object
OkResponseWithKey(presignedUrl) == [statusCode |-> 200, result |-> <<Key>>]

\* the response of the handler for the result of the upload
OkResponse(presignedUrl) == [statusCode |-> 200, result |-> presignedUrl]

\* handler: return after the upload
Return ==
  /\ hpc = "return"
  /\ Step("return", "done")
  /\ response' = OkResponse(s3.signed[Len(s3.signed)])
  /\ UNCHANGED <<fillVars, rvars, event, env, opts, pdfBuffer, s3, error>>

InternalServerError == "{\"message\":\"Internal Server Error\"}"

\* the response whose body is the message of the error
ErrorResponseWithMessage(e) == [statusCode |-> 500, body |-> e]

\* the response of the handler for the error e
ErrorResponse(e) == [statusCode |-> 500, body |-> InternalServerError]

\* handler: the catch block
Catch ==
  /\ hpc = "catch"
  /\ Step("catch", "done")
  /\ response' = ErrorResponse(error)
  /\ UNCHANGED <<fillVars, rvars, event, env, opts, pdfBuffer, s3, error>>

HandlerNext ==
  \/ Invoke \/ LaunchBrowser \/ NewPage \/ ReadTemplate \/ Fill \/ WriteFile
  \/ LoadPage \/ PrintPdf \/ CloseBrowser \/ CheckConfig \/ PutObject
  \/ GetSignedUrl \/ Return \/ Catch

HandlerSpec == HandlerInit /\ [][HandlerNext]_vars

\* ------------------------------------------------------------------------
\* Concurrent calls of renderPdfFromHtmlFile in one process
\* (src/renderPdf.js)
\* ------------------------------------------------------------------------
\* Date.now() takes the values 0..MaxNow while the calls run
MaxNow == 1

\* the images of the page that are not complete when it is loaded: 0..MaxImages
MaxImages == 1

\* the calls in flight
Callers == {"a", "b"}

\* the HTML that fillData returns for the data of the call c
FilledHtml(c) == <<"<h1>", c, "</h1>">>

\* no page is open
NoPage == [content |-> <<>>, fonts |-> "none", images |-> 0]

\* no PDF was captured
NoCapture == [taken |-> FALSE, content |-> <<>>, fonts |-> "none", images |-> 0]

\* a call that has just been made
RenderStart ==
  [pc |-> "launchBrowser", browser |-> "none", closes |-> 0, html |-> <<>>,
   tmpHtmlPath |-> -1, page |-> NoPage, pdf |-> NoCapture, error |-> "",
   steps |-> <<>>]

\* the calls are made together; no temporary file exists
RenderInit ==
  /\ pc = "idle"
  /\ data = EmptyRequest
  /\ Loaded
  /\ call = NoFunctionCall
  /\ NoInvocation
  /\ now = 0
  /\ files = [path \in 0..MaxNow |-> <<>>]
  /\ renders = [c \in Callers |-> RenderStart]

\* what a step of renderPdfFromHtmlFile leaves alone
notRendering ==
  <<fillVars, event, env, opts, hpc, pdfBuffer, s3, trace, error, response, sydneyDate>>

\* the call c has done the step and continues at next in the state r
Advance(c, step, next, r) ==
  renders' = [renders EXCEPT ![c] = [r EXCEPT !.pc = next, !.steps = Append(@, step)]]

\* the step of the call c rejects with the error e
Reject(c, step, e, next) ==
  Advance(c, step, next, [renders[c] EXCEPT !.error = e])

\* const browser = await launchBrowser(), before the try block
Launch(c) ==
  /\ renders[c].pc = "launchBrowser"
  /\ \/ Advance(c, "launchBrowser", "newPage", [renders[c] EXCEPT !.browser = "open"])
     \/ Reject(c, "launchBrowser", "launch failed", "thrown")
  /\ UNCHANGED <<notRendering, now, files>>

\* const page = await browser.newPage()
OpenPage(c) ==
  /\ renders[c].pc = "newPage"
  /\ \/ Advance(c, "newPage", "readFile", renders[c])
     \/ Reject(c, "newPage", "newPage failed", "finally")
  /\ UNCHANGED <<notRendering, now, files>>

\* the template is read; then, without an await in between, it is filled
\* and the path of the temporary file is made from Date.now()
ReadAndFill(c) ==
  /\ renders[c].pc = "readFile"
  /\ \/ Advance(c, "readFile", "writeFile",
                [renders[c] EXCEPT !.html = FilledHtml(c), !.tmpHtmlPath = now])
     \/ Reject(c, "readFile", "ENOENT", "finally")
     \/ Reject(c, "fillData", "TypeError", "finally")
  /\ UNCHANGED <<notRendering, now, files>>

\* await fs.writeFile(tmpHtmlPath, html)
WriteHtml(c) ==
  /\ renders[c].pc = "writeFile"
  /\ \/ /\ Advance(c, "writeFile", "goto", renders[c])
        /\ files' = [files EXCEPT ![renders[c].tmpHtmlPath] = renders[c].html]
     \/ Reject(c, "writeFile", "ENOSPC", "finally") /\ UNCHANGED files
  /\ UNCHANGED <<notRendering, now>>

\* the page that has loaded the content, with fonts and images under way
LoadedPage(content, fonts, images) ==
  [content |-> content, fonts |-> fonts, images |-> images]

\* await page.goto(`file://${tmpHtmlPath}`, { waitUntil: "networkidle0" })
Goto(c) ==
  /\ renders[c].pc = "goto"
  /\ \/ \E fonts \in {"loading", "loaded"}, images \in 0..MaxImages :
          Advance(c, "goto", "evaluate",
                  [renders[c] EXCEPT !.page =
                     LoadedPage(files[renders[c].tmpHtmlPath], fonts, images)])
     \/ Reject(c, "goto", "navigation failed", "finally")
  /\ UNCHANGED <<notRendering, now, files>>

\* document.fonts.ready resolves in the page of the call c
FontsLoad(c) ==
  /\ renders[c].browser = "open"
  /\ renders[c].page.fonts = "loading"
  /\ Advance(c, "fonts.ready", renders[c].pc,
             [renders[c] EXCEPT !.page.fonts = "loaded"])
  /\ UNCHANGED <<notRendering, now, files>>

\* an image of the page of the call c fires load or error
ImageSettles(c) ==
  /\ renders[c].browser = "open"
  /\ renders[c].page.images > 0
  /\ Advance(c, "image", renders[c].pc,
             [renders[c] EXCEPT !.page.images = @ - 1])
  /\ UNCHANGED <<notRendering, now, files>>

\* the promise of page.evaluate resolves without waiting for the images
FontsSettled(page) == page.fonts = "loaded"

\* Promise.all([document.fonts?.ready, ...imgPromises]) has resolved
AssetsSettled(page) == page.fonts = "loaded" /\ page.images = 0

\* await page.evaluate(...): the wait for fonts and images
WaitAssets(c) ==
  /\ renders[c].pc = "evaluate"
  /\ \/ /\ AssetsSettled(renders[c].page)
        /\ Advance(c, "evaluate", "pdf", renders[c])
     \/ Reject(c, "evaluate", "evaluate failed", "finally")
  /\ UNCHANGED <<notRendering, now, files>>

\* the PDF of the page as it is at the capture
Capture(page) ==
  [taken |-> TRUE, content |-> page.content, fonts |-> page.fonts,
   images |-> page.images]

\* const pdf = await page.pdf(...)
CapturePdf(c) ==
  /\ renders[c].pc = "pdf"
  /\ \/ Advance(c, "pdf", "finally", [renders[c] EXCEPT !.pdf = Capture(renders[c].page)])
     \/ Reject(c, "pdf", "pdf failed", "finally")
  /\ UNCHANGED <<notRendering, now, files>>

\* the browser is closed only when no step has failed
ClosedOnSuccess(r) ==
  IF r.error = "" THEN [r EXCEPT !.browser = "closed", !.closes = @ + 1] ELSE r

\* browser.close() has resolved
Closed(r) == [r EXCEPT !.browser = "closed", !.closes = @ + 1]

\* where the call ends: return pdf, or the error is thrown on
Outcome(r) == IF r.error = "" THEN "returned" ELSE "thrown"

\* finally { await browser.close() }
Finally(c) ==
  /\ renders[c].pc = "finally"
  /\ \/ Advance(c, "close", Outcome(renders[c]), Closed(renders[c]))
     \/ Advance(c, "close", "thrown",
                [renders[c] EXCEPT !.closes = @ + 1, !.error = "close failed"])
  /\ UNCHANGED <<notRendering, now, files>>

\* a millisecond passes
Tick ==
  /\ renders # <<>>
  /\ now < MaxNow
  /\ now' = now + 1
  /\ UNCHANGED <<notRendering, files, renders>>

RenderNext ==
  \/ Tick
  \/ \E c \in Callers :
       \/ Launch(c) \/ OpenPage(c) \/ ReadAndFill(c) \/ WriteHtml(c) \/ Goto(c)
       \/ FontsLoad(c) \/ ImageSettles(c) \/ WaitAssets(c) \/ CapturePdf(c)
       \/ Finally(c)

RenderSpec == RenderInit /\ [][RenderNext]_vars

\* every continuation that is ready runs, and every await settles
RenderFairSpec == RenderSpec /\ WF_vars(RenderNext)

\* ------------------------------------------------------------------------
\* Properties
\* ------------------------------------------------------------------------
Called == pc \in {"computed", "repriced", "filled"}

Freq(i) == data.frequencies[FrequencyKeys[i]]

AnnualOf(i) ==
  <<cgt.chuteAnnual, cgt.equipAnnual, cgt.hopperAnnual, cgt.wasteAnnual,
    cgt.binAnnual, cgt.odourAnnual>>[i]

AtLeastZero(x) == IF x < 0 THEN 0 ELSE x

\* the positions <<site, building, service>> of the services of the request
Positions ==
  LET sites == data.serviceAgreement.sites
  IN {<<i, j, k>> \in (1..Len(sites)) \X (1..3) \X (1..3) :
        /\ j <= Len(sites[i].buildings)
        /\ k <= Len(sites[i].buildings[j].services)}

At(p) == data.serviceAgreement.sites[p[1]].buildings[p[2]].services[p[3]]

RECURSIVE SumFn(_, _)
SumFn(f, S) ==
  IF S = {} THEN 0
  ELSE LET x == CHOOSE y \in S : TRUE IN f[x] + SumFn(f, S \ {x})

\* the weight the billing rule of category i gives the service s
WeightOf(i, s) ==
  CASE i \in {1, 3} -> getNumber(s.chutes)
    [] i = 2 -> getNumber(s.quantity)
    [] i = 6 -> IF s.id \in DOMAIN data.odourControlUnits
                  THEN getNumber(data.odourControlUnits[s.id]) ELSE 0
    [] OTHER -> Scale

\* the annual cost of category i, summed over the services of the request
CategoryCost(i) ==
  SumFn([p \in Positions |->
           IF At(p).type = ServiceTypes[i]
             THEN Mul(getNumber(At(p).price), WeightOf(i, At(p))) * frequencyToMultiplier(Freq(i))
             ELSE 0],
        Positions)

\* the labels that are null, blank or "none" in any letter case
ZeroLabels ==
  {Null, Str(<<>>), Str(<<" ">>), Str(sNone), Str(<<" ">> \o sNone \o <<" ">>),
   Str(<<"N", "o", "n", "e">>), Str(<<"N", "O", "N", "E">>)}

\* the labels computeGrandTotal does not count: null, blank, and "none"
\* in lower case
UncountedLabels ==
  {Null, Str(<<>>), Str(<<" ">>), Str(sNone), Str(<<" ">> \o sNone \o <<" ">>)}

\* C1: computeGrandTotal returns a number >= 0 for every input
NonNegativeTotal == Called => cgt.result >= 0

\* a negative subtotal is floored at zero
NegativeSubtotalFloored == Called /\ cgt.subtotal < 0 /\ cgt.result = 0

\* C2: computeGrandTotal returns max(0, subtotal - discountAmount), where
\* subtotal is the sum of the six category costs and discountAmount is
\* subtotal * DiscountRule(selectedCount) / 100 when incentives is truthy
\* and 0 when it is falsy
GrandTotalFormula ==
  Called =>
    LET subtotal == SumFn([i \in 1..6 |-> CategoryCost(i)], 1..6)
        pct == getDiscountDefault(cgt.serviceCount)
    IN /\ cgt.subtotal = subtotal
       /\ IF Truthy(data.serviceAgreement.incentives)
            THEN 100 * cgt.result = AtLeastZero(100 * subtotal - subtotal * pct)
            ELSE cgt.result = AtLeastZero(subtotal)

\* six categories selected, incentives falsy: the total is the subtotal
UndiscountedSixSelected ==
  /\ Called
  /\ ~Truthy(data.serviceAgreement.incentives)
  /\ cgt.serviceCount = 6
  /\ cgt.subtotal > 0
  /\ cgt.result = cgt.subtotal

\* C3: the default rule gives 0 below three selected categories, 0 at
\* three, 5 at four or five and 10 at six; six selected categories with
\* incentives give the subtotal less 10%
DefaultDiscountTiers ==
  Called =>
    /\ cgt.discountPct =
         (CASE cgt.serviceCount < 3 -> 0
            [] cgt.serviceCount = 3 -> 0
            [] cgt.serviceCount \in {4, 5} -> 5
            [] OTHER -> 10)
    /\ (cgt.serviceCount = 6 /\ Truthy(data.serviceAgreement.incentives))
         => 10 * cgt.result = AtLeastZero(9 * cgt.subtotal)

\* six selected categories with incentives: the total is 90% of a positive
\* subtotal
TenPercentOffSix ==
  /\ Called
  /\ Truthy(data.serviceAgreement.incentives)
  /\ \A i \in 1..6 : Freq(i) = Str(sQuarterly)
  /\ cgt.subtotal > 0
  /\ 10 * cgt.result = 9 * cgt.subtotal

\* C4: selectedCount is the number of categories whose frequency is not
\* null, not blank and not "none"; a category with a null frequency adds
\* nothing to the subtotal and is not counted
SelectedCountDefinition ==
  Called =>
    /\ cgt.serviceCount = Cardinality({i \in 1..6 : Freq(i) \notin UncountedLabels})
    /\ \A i \in 1..6 : Freq(i) = Null => AnnualOf(i) = 0
    /\ cgt.subtotal = SumFn([i \in 1..6 |-> IF Freq(i) = Null THEN 0 ELSE AnnualOf(i)], 1..6)

\* chute cleaning has a null frequency and priced services, the other five
\* categories are selected
NullChuteExcluded ==
  /\ Called
  /\ Freq(1) = Null
  /\ \E p \in Positions : At(p).type = "chute_cleaning" /\ getNumber(At(p).price) > 0
  /\ cgt.chuteAnnual = 0
  /\ cgt.serviceCount = 5
  /\ cgt.subtotal > 0

\* C6: frequencyToMultiplier gives 0 for null, blank or "none", 1 for
\* "yearly", 2 for "six-monthly", "6monthly" or "six monthly" and 4 for any
\* other label, whatever the case and the padding of the label
MultiplierTable ==
  Called =>
    /\ cgt.odourMult \in {0, 1, 2, 4}
    /\ cgt.odourMult =
         (CASE Freq(6) \in ZeroLabels -> 0
            [] Freq(6) \in {Str(sYearly), Str(<<"Y", "E", "A", "R", "L", "Y">>)} -> 1
            [] Freq(6) \in {Str(sSixMonthly), Str(s6Monthly), Str(sSixSpaceMonthly),
                            Str(<<" ">> \o sSixMonthly)} -> 2
            [] OTHER -> 4)

\* a padded "six-monthly" gives 2
PaddedSixMonthlyIsTwo ==
  Called /\ Freq(6) = Str(<<" ">> \o sSixMonthly) /\ cgt.odourMult = 2

\* C7: raising the price of one service never lowers the grand total
MonotonicInPrice == pc = "repriced" => cgt.result >= prevGrand

OdourCostPerUnit ==
  Called =>
    /\ cgt.odourAnnual = CategoryCost(6)
    /\ cgt.odourMult = 0 => cgt.odourAnnual = 0
    /\ (\A p \in Positions :
          At(p).type = "odour_control" => At(p).id \notin DOMAIN data.odourControlUnits)
         => cgt.odourAnnual = 0

\* one odour service priced 299 with one unit at "quarterly" gives 1196
ScenarioC ==
  /\ pc = "computed"
  /\ data.serviceAgreement.sites =
       SingleSites(Service("odour1", "odour_control", Whole(299), Whole(1), Whole(1)))
  /\ Freq(6) = Str(sQuarterly)
  /\ data.odourControlUnits = OneUnit
  /\ cgt.odourAnnual = 1196 * Scale

\* the atoms of html between the atoms open and close
Between(html, open, close) ==
  LET i == CHOOSE k \in 1..Len(html) : html[k] = open
      j == CHOOSE k \in 1..Len(html) : html[k] = close
  IN SubSeq(html, i + 1, j - 1)

\* C5: the selected category count of computeGrandTotal equals the one of
\* getIncentivesContent for every frequency selection
OneSelectedCount ==
  (pc = "filled" /\ gic.called) => gic.serviceCount = cgt.serviceCount

\* C10 as claimed: {CONTRACT_TOTAL} is replaced by the currency formatting
\* of twice the grand total for every grand total, 0 included
ContractTotalAlwaysFormatted ==
  pc = "filled" =>
    Between(fd.out, "<total>", "</total>") = formatMoney(2 * cgt.result)

\* C10: {CONTRACT_TOTAL} is replaced by the currency formatting of twice
\* the grand total when the grand total is not 0, and by the empty string
\* when it is 0
ContractTotalTwiceGrand ==
  pc = "filled" =>
    LET shown == Between(fd.out, "<total>", "</total>")
    IN IF cgt.result = 0
         THEN shown = <<>>
         ELSE /\ shown = formatMoney(2 * cgt.result)
              /\ shown[1] = "$"
              /\ shown[Len(shown) - 2] = "."
              /\ getNumber(Str(shown)) = 2 * cgt.result

\* a grand total of 3600 is shown as $7,200.00
ContractTotalOfScenarioA ==
  /\ pc = "filled"
  /\ cgt.result = 3600 * Scale
  /\ Between(fd.out, "<total>", "</total>") = <<"$", "7", ",", "2", "0", "0", ".", "0", "0">>

\* the section titles, in the order of FrequencyKeys
SectionTitles ==
  <<"Waste Chute Cleaning", "Equipment Preventative Maintenance",
    "Self-Closing Hopper Door Inspection", "Waste Room High Pressure Clean",
    "Wheelie Bin Cleaning", "EF Neutraliser">>

\* the categories whose frequency is null or the empty string
Unselected == {i \in 1..6 : Freq(i) \in {Null, Str(<<>>)}}

\* C11: a category whose frequency is null or the empty string contributes
\* 0, is not counted as selected and has no section in the rendered HTML; a
\* category whose frequency is "none" contributes 0
EmptyFrequencyExcluded ==
  pc = "filled" =>
    /\ cgt.serviceCount <= 6 - Cardinality(Unselected)
    /\ \A i \in 1..6 :
         /\ i \in Unselected =>
              AnnualOf(i) = 0 /\ ~Includes(fd.out, SectionTitles[i])
         /\ Freq(i) = Str(sNone) => AnnualOf(i) = 0

\* the positions of atom a in html
Occurrences(html, a) == {k \in 1..Len(html) : html[k] = a}

\* C12: the tier and perks of getIncentivesContent follow the selected
\* count (below 3 nothing, 3 BASIC with 3 perks, 4 or 5 ESSENTIAL with 6,
\* 6 or more PREMIUM with 7), there is one row for each perk, and the tier
\* name is on the first row only
IncentiveTiers ==
  gic.called =>
    /\ gic.serviceCount < 3 =>
         gic.tier = "" /\ gic.html = <<>> /\ gic.incentives = <<>>
    /\ gic.serviceCount = 3 => gic.tier = "BASIC" /\ Len(gic.incentives) = 3
    /\ gic.serviceCount \in {4, 5} =>
         gic.tier = "ESSENTIAL" /\ Len(gic.incentives) = 6
    /\ gic.serviceCount >= 6 => gic.tier = "PREMIUM" /\ Len(gic.incentives) = 7
    /\ gic.serviceCount >= 3 =>
         /\ Cardinality(Occurrences(gic.html, "<div class=section>")) = Len(gic.incentives)
         /\ \A i \in 1..Len(gic.incentives) : Includes(gic.html, gic.incentives[i])
         /\ Cardinality(Occurrences(gic.html, gic.tier)) = 1
         /\ \A k \in Occurrences(gic.html, gic.tier) :
              /\ gic.html[k + 2] = gic.incentives[1]
              /\ Occurrences(gic.html, "<div class=section>") \cap (1..k) = {k - 2}
         /\ Between(fd.out, "<incentives>", "</incentives>") = gic.html

\* four selected categories give the ESSENTIAL tier
EssentialForFour ==
  /\ pc = "filled"
  /\ gic.called
  /\ gic.serviceCount = 4
  /\ gic.tier = "ESSENTIAL"
  /\ Len(gic.incentives) = 6

\* C13 as claimed: getNumber returns a number that is at least 0
GetNumberNonNegative == call.fn = "getNumber" => call.ret >= 0

\* the characters getNumber keeps
KeptChars == {"0", "1", "2", "3", "4", "5", "6", "7", "8", "9", ".", ",", "-"}

\* the text getNumber parses for the text s, by the rule of the claim
PriceText(s) ==
  LET kept == SelectSeq(s, LAMBDA c : c \in KeptChars)
      chars == {kept[k] : k \in 1..Len(kept)}
  IN IF {".", ","} \subseteq chars
       THEN SelectSeq(kept, LAMBDA c : c # ",")
       ELSE [k \in 1..Len(kept) |-> IF kept[k] = "," THEN "." ELSE kept[k]]

\* C14: on a string getNumber keeps digits, '.', ',' and '-', drops the
\* commas when a point is present and otherwise reads a comma as the
\* decimal point, and returns the number parsed from that text, or 0 when
\* no number can be parsed; "1,250.50" gives 1250.50 and "300,00" gives 300
GetNumberCleansAndParses ==
  (call.fn = "getNumber" /\ call.arg.t = "str") =>
    /\ call.ret = (IF parseFloat(PriceText(call.arg.s)).nan
                     THEN 0 ELSE parseFloat(PriceText(call.arg.s)).n)
    /\ call.arg.s = s1250 => call.ret = 125050
    /\ call.arg.s = s300 => call.ret = 300 * Scale
    /\ (\A k \in 1..Len(call.arg.s) : ~IsDigit(call.arg.s[k])) => call.ret = 0

\* "300,00" was parsed as 300
CommaDecimalParsed ==
  /\ call.fn = "getNumber"
  /\ call.arg = Str(s300)
  /\ call.ret = 300 * Scale

\* the positions <<site, building, service>> of the services of sites that
\* have the type
Matching(sites, type) ==
  {p \in (1..Len(sites)) \X (1..3) \X (1..3) :
     /\ p[2] <= Len(sites[p[1]].buildings)
     /\ p[3] <= Len(sites[p[1]].buildings[p[2]].services)
     /\ sites[p[1]].buildings[p[2]].services[p[3]].type = type}

\* position q comes before position p in the input
Before(q, p) ==
  \/ q[1] < p[1]
  \/ q[1] = p[1] /\ q[2] < p[2]
  \/ q[1] = p[1] /\ q[2] = p[2] /\ q[3] < p[3]

\* item is the service at position p of sites with the names and ids of its
\* site and building
Carries(item, sites, p) ==
  LET site == sites[p[1]]
      b == site.buildings[p[2]]
      s == b.services[p[3]]
  IN /\ item.site_name = Coalesce(site.site_name, Str(<<>>))
     /\ item.site_id = site.simpro_site_id
     /\ item.building_id = b.id
     /\ item.building_name = (IF Truthy(b.name) THEN b.name ELSE Null)
     /\ \A f \in DOMAIN s : item[f] = s[f]

\* C15 as claimed: the items of getServices are the services of the type,
\* each once and in input order, each with site_name, site_id, building_id
\* and building_name of its site and building and with its own fields
GetServicesCollects ==
  (call.fn = "getServices" /\ ~call.threw) =>
    LET sites == SitesOf(call.arg.sites)
        match == Matching(sites, call.arg.type)
        items == call.ret.items
    IN /\ Len(items) = Cardinality(match)
       /\ \A p \in match :
            Carries(items[Cardinality({q \in match : Before(q, p)}) + 1], sites, p)

\* C16: no call of getNumber, getServices or computeGrandTotal raises an
\* exception, whatever the sites, buildings and services are
PricingNeverRaises ==
  call.fn \in {"getNumber", "getServices", "computeGrandTotal"} => ~call.threw

\* the placeholders of the template
Placeholders ==
  {"{COMPANY_NAME}", "{ABN}", "{ADDRESS}", "{ACCOUNTS_EMAILS}", "{ACCOUNT_PHONE}",
   "{START_DATE}", "{END_DATE}", "{CONTRACT_TOTAL}", "{SERVICE-CONTENT}", "{SITE_NAME}",
   "{NAME}", "{SIGNATURE}", "{DATE}", "{SALESPERSON}", "{INCENTIVES-CONTENT}"}

\* C17: fillData raises no exception, whatever the data are, and returns
\* the HTML without a placeholder, with the empty string in the place of a
\* placeholder whose field is missing
FillDataNeverRaises ==
  call.fn = "fillData" =>
    /\ ~call.threw
    /\ \A token \in Placeholders : ~Includes(call.ret, token)
    /\ Prop(call.arg, "companyName") = Null => Between(call.ret, "<h1>", "</h1>") = <<>>
    /\ Prop(call.arg, "abn") = Null => Between(call.ret, "<abn>", "</abn>") = <<>>
    /\ Prop(call.arg, "signFullName") = Null => Between(call.ret, "<name>", "</name>") = <<>>

\* the position of the step in the trace
IndexOf(step) == CHOOSE k \in 1..Len(trace) : trace[k] = step

\* the steps of the trace, each once, in this order
InOrder(steps) ==
  /\ \A i \in 1..Len(steps) : Cardinality(Occurrences(trace, steps[i])) = 1
  /\ \A i \in 1..(Len(steps) - 1) : IndexOf(steps[i]) < IndexOf(steps[i + 1])

\* C18: when no step of the rendering and the upload fails, the handler
\* returns statusCode 200 with the presigned URL of the upload as result,
\* after filling the template, rendering the PDF of the filled HTML,
\* uploading that buffer and signing its URL, in this order; an event
\* without data is rendered from the empty data object
SuccessReturnsUrl ==
  (InHandler /\ hpc = "done") =>
    /\ error = "" <=> response.statusCode = 200
    /\ error = "" =>
         /\ response = [statusCode |-> 200, result |-> PresignedUrl(Key)]
         /\ s3.signed = <<response.result>>
         /\ s3.puts = <<[Key |-> Key, Body |-> Pdf(fd.out)]>>
         /\ pdfBuffer = Pdf(fd.out)
         /\ \A token \in Placeholders : ~Includes(fd.out, token)
         /\ InOrder(<<"handler", "fillData", "pdf", "close", "uploadPdfAndGetUrl",
                      "PutObject", "getSignedUrl", "return">>)
         /\ Prop(event, "data") = Null => data = DataOf(EmptyData)

\* an event without a data field gave a PDF and a URL
NoDataStillRenders ==
  /\ hpc = "done"
  /\ event = Event(Null)
  /\ response = [statusCode |-> 200, result |-> PresignedUrl(Key)]
  /\ data = DataOf(EmptyData)
  /\ Between(fd.out, "<h1>", "</h1>") = <<>>

\* the errors of the steps of renderPdfFromHtmlFile and of reading event.data
RenderErrors ==
  {"TypeError", "launch failed", "newPage failed", "ENOENT", "ENOSPC",
   "navigation failed", "pdf failed", "close failed"}

\* C19: the handler never throws; when a step fails it returns statusCode
\* 500 with the generic body and no result, and when the failure is in the
\* rendering no step of the upload is taken
FailureReturns500 ==
  InHandler =>
    /\ hpc # "raised"
    /\ response # Null => hpc = "done"
    /\ (hpc = "done" /\ error # "") =>
         /\ response = [statusCode |-> 500, body |-> InternalServerError]
         /\ "return" \notin {trace[k] : k \in 1..Len(trace)}
         /\ s3.signed = <<>>
    /\ error \in RenderErrors =>
         /\ s3 = EmptyBucket
         /\ {"uploadPdfAndGetUrl", "PutObject", "getSignedUrl"}
              \cap {trace[k] : k \in 1..Len(trace)} = {}
         /\ hpc \in {"finally", "catch", "done"}

\* page.pdf failed and the handler answered 500
RenderFailureGives500 ==
  /\ hpc = "done"
  /\ error = "pdf failed"
  /\ response.statusCode = 500
  /\ Len(trace) = 10

\* the region, the bucket or a credential is missing
ConfigMissing ==
  \/ ~opts.region /\ ~env.AWS_REGION
  \/ ~opts.bucket /\ ~env.S3_BUCKET_NAME
  \/ ~env.AWS_ACCESS_KEY_ID
  \/ ~env.AWS_SECRET_ACCESS_KEY

\* C20: when the region, the bucket or a credential is missing,
\* uploadPdfAndGetUrl raises one of its two explicit errors, and no
\* PutObject is sent and no URL is signed
ConfigCheckedBeforeStorage ==
  ConfigMissing =>
    /\ s3 = EmptyBucket
    /\ {"PutObject", "getSignedUrl"} \cap {trace[k] : k \in 1..Len(trace)} = {}
    /\ hpc \notin {"PutObject", "getSignedUrl", "return", "returned"}
    /\ "uploadPdfAndGetUrl" \in {trace[k] : k \in 1..Len(trace)} =>
         /\ error \in {MissingConfig, MissingKeys}
         /\ trace[Len(trace)] \in {"uploadPdfAndGetUrl", "catch"}
         /\ hpc \in {"raised", "catch", "done"}

\* a call without a bucket raised the configuration error
MissingBucketRaised ==
  /\ hpc = "raised"
  /\ opts.region
  /\ ~opts.bucket /\ ~env.S3_BUCKET_NAME
  /\ env.AWS_ACCESS_KEY_ID /\ env.AWS_SECRET_ACCESS_KEY
  /\ error = MissingConfig
  /\ s3 = EmptyBucket

\* the position of the step in the steps of the call r
StepOf(r, step) == CHOOSE k \in 1..Len(r.steps) : r.steps[k] = step

\* the steps of the call r
StepsOf(r) == {r.steps[k] : k \in 1..Len(r.steps)}

\* C21: a call captures the PDF only of a page whose navigation has
\* completed and whose fonts and images have all settled, and its
\* navigation and its wait both come before the capture
PdfAfterWaits ==
  \A c \in DOMAIN renders :
    /\ renders[c].pdf.taken =>
         /\ renders[c].pdf.fonts = "loaded"
         /\ renders[c].pdf.images = 0
         /\ renders[c].pdf.content # <<>>
         /\ {"goto", "evaluate", "pdf"} \subseteq StepsOf(renders[c])
         /\ StepOf(renders[c], "goto") < StepOf(renders[c], "evaluate")
         /\ StepOf(renders[c], "evaluate") < StepOf(renders[c], "pdf")
         /\ \A k \in 1..Len(renders[c].steps) :
              renders[c].steps[k] \in {"fonts.ready", "image"} =>
                k < StepOf(renders[c], "evaluate")
    /\ renders[c].pc = "pdf" => AssetsSettled(renders[c].page)

\* a page whose fonts and image were still loading after the navigation
\* was captured once both had settled
CapturedAfterImage ==
  \E c \in DOMAIN renders :
    /\ renders[c].pdf.taken
    /\ {"fonts.ready", "image"} \subseteq StepsOf(renders[c])
    /\ StepOf(renders[c], "goto") < StepOf(renders[c], "image")
    /\ StepOf(renders[c], "goto") < StepOf(renders[c], "fonts.ready")

\* the call r holds a temporary file that it has not yet loaded or given up
UsesTempFile(r) == r.tmpHtmlPath # -1 /\ r.pc \in {"writeFile", "goto"}

\* C29: concurrent calls never share the path of their temporary file while
\* they use it, and each call loads and captures the HTML that it wrote
OwnTempFile ==
  \A c \in DOMAIN renders :
    /\ \A d \in DOMAIN renders \ {c} :
         UsesTempFile(renders[c]) /\ UsesTempFile(renders[d]) =>
           renders[c].tmpHtmlPath # renders[d].tmpHtmlPath
    /\ renders[c].page.content \in {<<>>, FilledHtml(c)}
    /\ renders[c].pdf.taken => renders[c].pdf.content = FilledHtml(c)

\* the call r has returned or thrown
Ended(r) == r.pc \in {"returned", "thrown"}

\* the browser of the call r is closed once it ends, and never twice
ClosedWhenEnded(r) ==
  /\ r.closes <= 1
  /\ r.browser = "none" => r.closes = 0
  /\ (Ended(r) /\ r.browser # "none") =>
       /\ r.closes = 1
       /\ r.error # "close failed" => r.browser = "closed"
  /\ r.browser = "closed" => r.pc \in {"returned", "thrown"}

\* C30: every browser that a call has launched is closed, exactly once,
\* whether the PDF is produced or a step fails, and no call returns or
\* throws with its browser open (unless browser.close() itself rejects)
BrowserClosedOnce ==
  /\ [](\A c \in Callers : ClosedWhenEnded(renders[c]))
  /\ \A c \in Callers :
       (renders[c].browser = "open") ~> (renders[c].closes = 1 /\ Ended(renders[c]))

\* a call whose capture failed has thrown with its browser closed
ClosedAfterFailedCapture ==
  \E c \in DOMAIN renders :
    /\ renders[c].pc = "thrown"
    /\ renders[c].error = "pdf failed"
    /\ renders[c].browser = "closed"
    /\ renders[c].closes = 1

\* the DD/MM/YYYY date of the ISO string in the Sydney calendar, and the
\* empty string for what is no ISO string
SydneyDate(iso) == toDDMMYYYYInZone(iso, "Australia/Sydney")

\* C22: toDDMMYYYY never raises and returns the Sydney calendar date of
\* its ISO date or timestamp, whatever the time zone of the process, and
\* the empty string for null, non-string and unparseable input
DatesInSydney ==
  call.fn = "toDDMMYYYY" =>
    /\ ~call.threw
    /\ call.ret = SydneyDate(call.arg.iso)
    /\ (call.arg.iso.t # "str" \/ call.arg.iso.s \in {<<>>, <<"a", "b", "c">>})
         => call.ret = <<>>

\* C24: the value of TODAY_AU is the date of the load of the module, and
\* every fillData call puts that value in the place of {DATE}, whatever the
\* date of the call and whatever its data
TodayFixedAtLoad ==
  /\ TODAY_AU = Days[1]
  /\ (call.fn = "fillData" /\ ~call.threw) =>
       Between(call.ret, "<date>", "</date>") = Days[1]

\* a call made on the day after the load, with data, shows the date of the load
YesterdayShown ==
  /\ call.fn = "fillData" /\ ~call.threw
  /\ call.arg # EmptyData
  /\ sydneyDate = Days[2]
  /\ Between(call.ret, "<date>", "</date>") = Days[1]

PlainLabels == {Null, Str(sNone), Str(sQuarterly), Str(sSixMonthly), Str(sYearly)}

\* the service-pricing discount that the rendered incentives advertise
AdvertisedDiscount(shown) ==
  IF Includes(shown, "5% Service Pricing Discounts") THEN 5
  ELSE IF Includes(shown, "10% Service Pricing Discounts") THEN 10
  ELSE 0

\* C25: with incentives enabled and plain frequency labels, the discount
\* percentage of computeGrandTotal is the one the rendered incentive tier
\* advertises: 0 without a tier and for BASIC, 5 for ESSENTIAL, 10 for
\* PREMIUM; and the total is the subtotal less that percentage
DiscountMatchesTier ==
  (/\ pc = "filled"
   /\ Truthy(data.serviceAgreement.incentives)
   /\ \A i \in 1..6 : Freq(i) \in PlainLabels) =>
    /\ gic.called
    /\ cgt.discountPct =
         AdvertisedDiscount(Between(fd.out, "<incentives>", "</incentives>"))
    /\ gic.tier \in {"", "BASIC"} => cgt.discountPct = 0
    /\ gic.tier = "ESSENTIAL" => cgt.discountPct = 5
    /\ gic.tier = "PREMIUM" => cgt.discountPct = 10
    /\ gic.tier # "" => Includes(fd.out, gic.tier)
    /\ 100 * cgt.result = AtLeastZero(100 * cgt.subtotal - cgt.subtotal * cgt.discountPct)

\* five selected categories: ESSENTIAL is rendered and 5% is taken off
FivePercentForEssential ==
  /\ pc = "filled"
  /\ Truthy(data.serviceAgreement.incentives)
  /\ \A i \in 1..6 : Freq(i) \in PlainLabels
  /\ cgt.serviceCount = 5
  /\ gic.tier = "ESSENTIAL"
  /\ Includes(fd.out, "5% Service Pricing Discounts")
  /\ cgt.subtotal > 0
  /\ 100 * cgt.result = 95 * cgt.subtotal

\* the weight field of the per-unit category i in the service s
WeightField(i, s) == IF i = 2 THEN s.quantity ELSE s.chutes

\* the annual cost of the per-unit category i over the services that have
\* a value in their weight field
WeightedCost(i) ==
  SumFn([p \in Positions |->
           IF At(p).type = ServiceTypes[i] /\ WeightField(i, At(p)) # Null
             THEN Mul(getNumber(At(p).price), getNumber(WeightField(i, At(p))))
                    * frequencyToMultiplier(Freq(i))
             ELSE 0],
        Positions)

\* C26: a chute_cleaning or hopper_door_inspection service without a
\* chutes value and an equipment_maintenance service without a quantity
\* value add nothing to the cost of their category, whatever their price
\* and the frequency
WeightlessServiceFree ==
  Called =>
    /\ cgt.chuteAnnual = WeightedCost(1)
    /\ cgt.equipAnnual = WeightedCost(2)
    /\ cgt.hopperAnnual = WeightedCost(3)
    /\ cgt.subtotal = cgt.chuteAnnual + cgt.equipAnnual + cgt.hopperAnnual
                        + cgt.wasteAnnual + cgt.binAnnual + cgt.odourAnnual

\* a hopper-door inspection priced 450 without chutes, every category
\* quarterly: the total is 0
HopperWithoutChutesFree ==
  /\ pc = "computed"
  /\ data.serviceAgreement.sites =
       SingleSites(Service("odour1", "hopper_door_inspection", Whole(450), Null, Null))
  /\ Freq(3) = Str(sQuarterly)
  /\ cgt.hopperAnnual = 0
  /\ cgt.subtotal = 0
  /\ cgt.result = 0

\* the grand total that the later version returns for the request
LaterTotal ==
  computeGrandTotalLater(data.serviceAgreement.sites, data.frequencies,
                         data.odourControlUnits, data.serviceAgreement.incentives).result

\* C27 as claimed: computeGrandTotal of src/fillData.js and of
\* src/unnamed/part_001 return the same grand total for the same input
VersionsAgree == pc = "computed" => cgt.result = LaterTotal

\* C28 as claimed: the text of a data value is in the output as it was
\* given, also when it holds the text of a placeholder: the company name,
\* the ABN and the name of the signatory stand between their markup
ValuesStayLiteral ==
  (call.fn = "fillData" /\ ~call.threw) =>
    /\ Between(call.ret, "<h1>", "</h1>")
         = String(Coalesce(DataOf(call.arg).companyName, Str(<<>>)))
    /\ Between(call.ret, "<abn>", "</abn>")
         = String(Coalesce(DataOf(call.arg).abn, Str(<<>>)))
    /\ Between(call.ret, "<name>", "</name>")
         = String(Coalesce(DataOf(call.arg).signFullName, Str(<<>>)))

====
